---- MODULE Spec2Model ----
(***************************************************************************)
(* A model of the concurrent crawl engine of web_crawler:                  *)
(*   crawler/parser.py   normalise_url, extract_urls                       *)
(*   crawler/service.py  is_same_domain, CrawlerService.crawl              *)
(* The engine runs on a cooperative single-threaded scheduler (asyncio):   *)
(* a task runs without interruption from one suspension point to the next, *)
(* so every action below is one such uninterrupted run of one task.        *)
(***************************************************************************)
EXTENDS Integers, Sequences, FiniteSets, Bags, TLC

(***************************************************************************)
(* Bounds of the model.                                                    *)
(***************************************************************************)
MaxConcurrency == 2     \* max_concurrency ranges over 1..MaxConcurrency
MaxDepth == 2           \* max_depth ranges over None and 0..MaxDepth
MaxPages == 2           \* max_pages ranges over None and 0..MaxPages
MaxVisited == 2         \* the max_visited a caller asks for
MaxCallers == 2         \* tasks calling TokenBucket.acquire
MaxWindow == 3          \* longest time interval observed, in clock ticks
MaxRetries == 2         \* max_retries ranges over 0..MaxRetries
MaxBackoff == 2         \* retry_backoff ranges over 1..MaxBackoff time units
MaxText == 4            \* characters of a URL text after its host
MaxValues == 3          \* attribute values of a body given to extract_urls

\* Python's None for the optional integer options of CrawlerService.__init__.
None == -1

Range(s) == {s[i] : i \in DOMAIN s}

\* Then(value, Rest): Rest applied to value, with value computed once.
Then(value, Rest(_)) == CHOOSE y \in {Rest(v) : v \in {value}} : TRUE

\* str.find and str.rfind: the first and the last position of c in s, 0 for none.
find(s, c) ==
    IF \E k \in DOMAIN s : s[k] = c
    THEN CHOOSE k \in DOMAIN s : s[k] = c /\ \A j \in 1 .. k - 1 : s[j] # c
    ELSE 0
rfind(s, c) ==
    IF \E k \in DOMAIN s : s[k] = c
    THEN CHOOSE k \in DOMAIN s : s[k] = c /\ \A j \in k + 1 .. Len(s) : s[j] # c
    ELSE 0
From(s, k) == SubSeq(s, k, Len(s))
Upto(s, k) == SubSeq(s, 1, k)

(***************************************************************************)
(* URLs.  A URL is the 5-tuple urlparse produces; a path is the sequence   *)
(* of its tokens, each either the separator "/" or a segment name.         *)
(***************************************************************************)
Url(scheme, netloc, path, query, fragment) ==
    [scheme |-> scheme, netloc |-> netloc, path |-> path,
     query |-> query, fragment |-> fragment]

\* str.rstrip("/") on a path.
RECURSIVE rstrip_slash(_)
rstrip_slash(path) ==
    IF path # <<>> /\ path[Len(path)] = "/"
    THEN rstrip_slash(SubSeq(path, 1, Len(path) - 1))
    ELSE path

\* parser.normalise_url: strip fragment and trailing slashes of the path.
normalise_url(url) ==
    [url EXCEPT !.fragment = "", !.path = rstrip_slash(url.path)]

\* (mutant) a same-domain test that compares the schemes.
is_same_domain_by_scheme(url, base_url) == url.scheme = base_url.scheme

\* service.is_same_domain: exact equality of the netloc (host:port) strings.
is_same_domain(url, base_url) == url.netloc = base_url.netloc

\* The empty str, and the attribute value "#top".
EmptyText == Url("", "", <<>>, "", "")
FragmentOnly == Url("", "", <<>>, "", "top")

\* str(value).startswith("#"): a reference that is a fragment and nothing else.
starts_with_hash(value) ==
    /\ value.scheme = "" /\ value.netloc = "" /\ value.path = <<>> /\ value.query = ""
    /\ value.fragment # ""

\* The path of a relative reference merged with the base's: the base path up
\* to its last "/", then the reference.
merge_path(base_path, path) ==
    IF rfind(base_path, "/") = 0 THEN <<"/">> \o path
    ELSE Upto(base_path, rfind(base_path, "/")) \o path

\* urljoin(base_url, value): an attribute value with a scheme is the URL; a
\* reference without one is resolved against the base.
urljoin(base_url, value) ==
    IF value.scheme # "" THEN value
    ELSE IF value.netloc # "" THEN [value EXCEPT !.scheme = base_url.scheme]
    ELSE IF value.path = <<>>
    THEN Url(base_url.scheme, base_url.netloc, base_url.path,
             IF value.query # "" THEN value.query ELSE base_url.query, value.fragment)
    ELSE Url(base_url.scheme, base_url.netloc,
             IF value.path[1] = "/" THEN value.path ELSE merge_path(base_url.path, value.path),
             value.query, value.fragment)

\* (mutant) the loop without the `seen` test.
RECURSIVE extract_loop_no_seen(_, _, _)
extract_loop_no_seen(values, base_url, urls) ==
    IF values = <<>> THEN urls
    ELSE LET resolved == urljoin(base_url, Head(values))
             normalised == normalise_url(resolved)
         IN  IF Head(values) = EmptyText \/ starts_with_hash(Head(values))
             THEN extract_loop_no_seen(Tail(values), base_url, urls)
             ELSE IF resolved.scheme \notin {"http", "https"}
             THEN extract_loop_no_seen(Tail(values), base_url, urls)
             ELSE extract_loop_no_seen(Tail(values), base_url, Append(urls, normalised))

\* parser.extract_urls, lines 42-58, over the attribute values of a body in
\* document order.
RECURSIVE extract_loop(_, _, _)
extract_loop(values, base_url, urls) ==
    IF values = <<>> THEN urls
    ELSE LET resolved == urljoin(base_url, Head(values))
             normalised == normalise_url(resolved)
         IN  IF Head(values) = EmptyText \/ starts_with_hash(Head(values))
             THEN extract_loop(Tail(values), base_url, urls)
             ELSE IF resolved.scheme \notin {"http", "https"}
             THEN extract_loop(Tail(values), base_url, urls)
             ELSE IF normalised \in Range(urls)
             THEN extract_loop(Tail(values), base_url, urls)
             ELSE extract_loop(Tail(values), base_url, Append(urls, normalised))

ValueError == [kind |-> "ValueError"]

\* parser.extract_urls: ValueError for an empty base_url, no URL for an empty
\* body, else the loop.
extract_urls(html, base_url) ==
    IF base_url = EmptyText THEN ValueError
    ELSE IF html = <<>> THEN <<>>
    ELSE extract_loop(html, base_url, <<>>)

(***************************************************************************)
(* URL texts.  normalise_url takes and returns a str: it parses it with    *)
(* urlparse and writes the changed 6-tuple back with geturl.  A text is    *)
(* the sequence of its pieces: a scheme name, a host name, single          *)
(* characters.                                                             *)
(***************************************************************************)
lower(piece) == IF piece = "HTTPS" THEN "https" ELSE piece

\* url.split(c, 1) as urlsplit uses it: the text before the first c, and the
\* text after it (empty when there is no c).
split_at(s, c) ==
    IF find(s, c) = 0 THEN [head |-> s, tail |-> <<>>]
    ELSE [head |-> Upto(s, find(s, c) - 1), tail |-> From(s, find(s, c) + 1)]

\* urllib.parse._splitnetloc(url, 2): the text after "//" up to the first of
\* "/", "?", "#", and the rest.
splitnetloc(url) ==
    LET ends == {k \in 3 .. Len(url) : url[k] \in {"/", "?", "#"}}
        delim == IF ends = {} THEN Len(url) + 1
                 ELSE CHOOSE k \in ends : \A j \in ends : k <= j
    IN  [netloc |-> SubSeq(url, 3, delim - 1), rest |-> From(url, delim)]

\* urllib.parse._splitparams(url): the parameters of the last path segment.
splitparams(url) ==
    LET slash == rfind(url, "/")
        semi == IF slash = 0 THEN find(url, ";")
                ELSE IF find(From(url, slash), ";") = 0 THEN 0
                ELSE slash - 1 + find(From(url, slash), ";")
    IN  IF semi = 0 THEN [path |-> url, params |-> <<>>]
        ELSE [path |-> Upto(url, semi - 1), params |-> From(url, semi + 1)]

\* urllib.parse.urlparse(text): scheme, netloc, path, params, query, fragment.
urlparse(text) ==
    LET has_scheme == find(text, ":") = 2
        scheme == IF has_scheme THEN lower(text[1]) ELSE ""
        url == IF has_scheme THEN From(text, 3) ELSE text
        has_netloc == Len(url) >= 2 /\ url[1] = "/" /\ url[2] = "/"
        netloc == IF has_netloc THEN splitnetloc(url).netloc ELSE <<>>
        rest == IF has_netloc THEN splitnetloc(url).rest ELSE url
        no_fragment == split_at(rest, "#").head
        fragment == split_at(rest, "#").tail
        no_query == split_at(no_fragment, "?").head
        query == split_at(no_fragment, "?").tail
    IN  [scheme |-> scheme, netloc |-> netloc,
         path |-> splitparams(no_query).path, params |-> splitparams(no_query).params,
         query |-> query, fragment |-> fragment]

\* ParseResult.geturl(), urllib.parse.urlunparse: the text of a 6-tuple.
geturl(parsed) ==
    LET url == IF parsed.params # <<>> THEN parsed.path \o <<";">> \o parsed.params
               ELSE parsed.path
        rooted == IF url # <<>> /\ url[1] # "/" THEN <<"/">> \o url ELSE url
        with_netloc ==
            IF parsed.netloc # <<>> \/ (parsed.scheme # "" /\ Upto(url, 2) # <<"/", "/">>)
            THEN <<"/", "/">> \o parsed.netloc \o rooted
            ELSE url
        with_scheme == IF parsed.scheme # "" THEN <<parsed.scheme, ":">> \o with_netloc
                       ELSE with_netloc
        with_query == IF parsed.query # <<>> THEN with_scheme \o <<"?">> \o parsed.query
                      ELSE with_scheme
    IN  IF parsed.fragment # <<>> THEN with_query \o <<"#">> \o parsed.fragment
        ELSE with_query

\* parser.normalise_url on the text of a URL, lines 24-26.
normalise_url_text(text) ==
    geturl([urlparse(text) EXCEPT !.fragment = <<>>, !.path = rstrip_slash(@)])

\* The URL texts normalise_url is called with: "https://h" or "HTTPS://h"
\* and up to MaxText characters more.
TextAlphabet == {"a", "/", "?", "#", ";"}
Texts ==
    {<<scheme, ":", "/", "/", "h">> \o rest :
        scheme \in {"https", "HTTPS"},
        rest \in UNION {[1 .. n -> TextAlphabet] : n \in 0 .. MaxText}}

(***************************************************************************)
(* The fetch port.  client.fetch(url) returns an HttpResponse, raises      *)
(* FetchError, or raises another (unexpected) exception.  A body is kept   *)
(* as what its readers take from it: the attribute values an HTML reader   *)
(* finds in document order, and the groups a robots.txt reader finds.      *)
(***************************************************************************)
Body(links, groups) == [links |-> links, groups |-> groups]

HttpResponse(url, status_code, body, content_type) ==
    [kind |-> "response", url |-> url, status_code |-> status_code,
     body |-> body, content_type |-> content_type]

FetchError == [kind |-> "FetchError"]
RuntimeError == [kind |-> "RuntimeError"]

\* tests' html_response helper: a text/html response.
html_response(url, links, status) ==
    HttpResponse(url, status, Body(links, <<>>), "text/html; charset=utf-8")

\* "text/html" in response.content_type, over the content types of the sites.
has_text_html(content_type) ==
    content_type \in {"text/html", "text/html; charset=utf-8"}

\* A robots.txt group (robotparser.Entry): its User-agent names, its rule
\* lines in order, its Crawl-delay.  A name is the sequence of its pieces.
Star == <<"*">>
MyBot == <<"my", "-", "bot">>
UserAgents == {Star, MyBot}
NoDelay == None

\* robotparser.RuleLine: an empty Disallow allows everything.
RuleLine(path, allowance) ==
    [path |-> path, allowance |-> (allowance \/ path = <<>>)]

Entry(useragents, rulelines, delay) ==
    [useragents |-> useragents, rulelines |-> rulelines, delay |-> delay]

Host == "example.com"
OtherHost == "other.test"
Page(path) == Url("https", Host, path, "", "")

Root == Page(<<>>)
RootSlash == Page(<<"/">>)
PageA == Page(<<"/", "a">>)
PageASlash == Page(<<"/", "a", "/">>)
PageB == Page(<<"/", "b">>)
PageBFrag == Url("https", Host, <<"/", "b">>, "", "top")
PageC == Page(<<"/", "c">>)
PageD == Page(<<"/", "d">>)
Offsite == Url("https", OtherHost, <<"/", "x">>, "", "")
MailTo == Url("mailto", "", <<"me@example.com">>, "", "")
RobotsTxt == Page(<<"/", "robots.txt">>)
\* Pages of a subdomain of the host, and of the host with a port written out.
Subdomain == Url("https", "blog.example.com", <<"/", "a">>, "", "")
Port8080 == Url("https", "example.com:8080", <<"/", "a">>, "", "")
Port443 == Url("https", "example.com:443", <<"/", "a">>, "", "")

\* A -> B -> A cycle with trailing slashes, fragments, an off-site link and
\* a mailto link; three pages are discovered from the seed at once.
SiteCycle ==
    (Root :> html_response(Root, <<PageASlash, PageBFrag, RootSlash, Offsite, MailTo, PageC>>, 200))
 @@ (PageA :> html_response(PageA, <<Root, PageB>>, 200))
 @@ (PageB :> html_response(PageB, <<PageA, RootSlash>>, 200))
 @@ (PageC :> html_response(PageC, <<>>, 200))

\* Linear chain / -> /a -> /b -> /c -> /, where /c links to the missing /d
\* too and /b to pages of a subdomain and of the host with a port; robots.txt
\* answers 404 with a body that would keep everyone out.
SiteChain ==
    (RobotsTxt :> HttpResponse(RobotsTxt, 404,
                     Body(<<>>, <<Entry({Star}, <<RuleLine(<<"/">>, FALSE)>>, 2)>>),
                     "text/plain"))
 @@ (Root :> html_response(Root, <<PageA>>, 200))
 @@ (PageA :> html_response(PageA, <<PageB>>, 200))
 @@ (PageB :> html_response(PageB, <<Subdomain, Port8080, Port443, PageC>>, 200))
 @@ (PageC :> html_response(PageC, <<Root, PageD>>, 200))
 @@ (Subdomain :> html_response(Subdomain, <<>>, 200))
 @@ (Port8080 :> html_response(Port8080, <<>>, 200))
 @@ (Port443 :> html_response(Port443, <<>>, 200))

\* /a is missing (FetchError), /b is a page, /c raises an unexpected error.
SiteFaulty ==
    (Root :> html_response(Root, <<PageA, PageB, PageC>>, 200))
 @@ (PageB :> html_response(PageB, <<Root, PageA>>, 200))
 @@ (PageC :> RuntimeError)

\* /a redirects off-site, /b redirects to /c/, /c is served as itself too.
SiteRedirect ==
    (Root :> html_response(Root, <<PageA, PageB, PageC>>, 200))
 @@ (PageA :> html_response(Offsite, <<PageC>>, 200))
 @@ (PageB :> html_response(Page(<<"/", "c", "/">>), <<PageC, PageA>>, 200))
 @@ (PageC :> html_response(PageC, <<PageB>>, 200))

\* robots.txt keeps my-bot out of /a, with Crawl-delay 0, and everyone else
\* out of /b, with Crawl-delay 2; /c is an image and /d answers 404.
RobotsGroups ==
    << Entry({MyBot}, <<RuleLine(<<"/", "a">>, FALSE)>>, 0),
       Entry({Star}, <<RuleLine(<<"/", "b">>, FALSE), RuleLine(<<"/">>, TRUE)>>, 2) >>

SiteRobots ==
    (RobotsTxt :> HttpResponse(RobotsTxt, 200, Body(<<>>, RobotsGroups), "text/plain"))
 @@ (Root :> html_response(Root, <<PageA, PageB, PageC, PageD>>, 200))
 @@ (PageD :> html_response(PageD, <<PageB>>, 404))
 @@ (PageA :> html_response(PageA, <<PageB, PageC>>, 200))
 @@ (PageB :> html_response(PageB, <<>>, 200))
 @@ (PageC :> HttpResponse(PageC, 200, Body(<<PageB>>, <<>>), "image/png"))

\* / links to /a and /b, /a to /d, /b to /c, /c to /d, /d to /e: /d is two
\* links from the seed through /a and three through /b and /c, and both /a
\* and /c link to it.
PageE == Page(<<"/", "e">>)

SiteLattice ==
    (Root :> html_response(Root, <<PageA, PageB>>, 200))
 @@ (PageA :> html_response(PageA, <<PageD>>, 200))
 @@ (PageB :> html_response(PageB, <<PageC>>, 200))
 @@ (PageC :> html_response(PageC, <<PageD>>, 200))
 @@ (PageD :> html_response(PageD, <<PageE>>, 200))
 @@ (PageE :> html_response(PageE, <<>>, 200))

Sites == {"cycle", "chain", "faulty", "redirect", "robots"}
Seeds == {Root, RootSlash}

\* Seeds that are not absolute http or https URLs: "ftp://example.com/file"
\* and "not-a-url", as urlparse reads them.
FtpFile == Url("ftp", Host, <<"/", "file">>, "", "")
NotAUrl == Url("", "", <<"not-a-url">>, "", "")
BadSeeds == {FtpFile, NotAUrl}

\* cli._validate_url: the scheme is http or https and there is a hostname.
validate_url(url) == url.scheme \in {"http", "https"} /\ url.netloc # ""

Responses(site) ==
    CASE site = "cycle" -> SiteCycle
      [] site = "chain" -> SiteChain
      [] site = "faulty" -> SiteFaulty
      [] site = "redirect" -> SiteRedirect
      [] site = "robots" -> SiteRobots
      [] site = "lattice" -> SiteLattice

\* FakeHttpClient.fetch: the stored outcome, FetchError for an unknown URL.
client_fetch(site, url) ==
    IF url \in DOMAIN Responses(site) THEN Responses(site)[url] ELSE FetchError

(***************************************************************************)
(* The robots oracle (urllib.robotparser.RobotFileParser) for the          *)
(* configured user agent: the Disallow path prefixes and the Crawl-delay.  *)
(***************************************************************************)
IsPrefix(p, s) == Len(p) <= Len(s) /\ SubSeq(s, 1, Len(p)) = p

\* `agent in useragent` on names: agent occurs in useragent as a substring.
IsInfix(p, s) == \E k \in 0 .. Len(s) : k + Len(p) <= Len(s) /\ SubSeq(s, k + 1, k + Len(p)) = p

NoEntry == Entry({}, <<>>, NoDelay)

\* rp.parse([]): no group at all.
AllowAll == [entries |-> <<>>, default_entry |-> NoEntry]

\* Entry.applies_to(useragent)
applies_to(entry, useragent) ==
    \E agent \in entry.useragents : agent = Star \/ IsInfix(agent, useragent)

\* Entry.allowance(path): the first rule line that matches decides.
RECURSIVE allowance(_, _)
allowance(rulelines, path) ==
    IF rulelines = <<>> THEN TRUE
    ELSE IF IsPrefix(Head(rulelines).path, path) THEN Head(rulelines).allowance
    ELSE allowance(Tail(rulelines), path)

\* The first entry of the sequence that applies to useragent, else dflt.
RECURSIVE entry_for(_, _, _)
entry_for(entries, dflt, useragent) ==
    IF entries = <<>> THEN dflt
    ELSE IF applies_to(Head(entries), useragent) THEN Head(entries)
    ELSE entry_for(Tail(entries), dflt, useragent)

\* rp.parse(response.body.splitlines()): the groups naming * apart from the
\* others; the first of them is the default entry, considered last.
robots_parse(body) ==
    LET named == SelectSeq(body.groups, LAMBDA e : Star \notin e.useragents)
        stars == SelectSeq(body.groups, LAMBDA e : Star \in e.useragents)
    IN  [entries |-> named,
         default_entry |-> IF stars = <<>> THEN NoEntry ELSE Head(stars)]

\* (mutant) an oracle that answers for the * group whatever the agent.
can_fetch_default_only(rp, useragent, url) ==
    LET path == IF url.path = <<>> THEN <<"/">> ELSE url.path
    IN  allowance(rp.default_entry.rulelines, path)

\* robots.can_fetch(user_agent, url); an empty path is matched as "/".
can_fetch(rp, useragent, url) ==
    LET path == IF url.path = <<>> THEN <<"/">> ELSE url.path
    IN  allowance(entry_for(rp.entries, rp.default_entry, useragent).rulelines, path)

\* robots.crawl_delay(user_agent)
crawl_delay(rp, useragent) == entry_for(rp.entries, rp.default_entry, useragent).delay

\* CrawlerService._fetch_robots: the outcome of the robots.txt fetch to oracle.
robots_url(start) == Url(start.scheme, start.netloc, <<"/", "robots.txt">>, "", "")

\* (mutant) _fetch_robots parsing the body whatever the status.
fetch_robots_any_status(outcome) ==
    IF outcome.kind = "response" THEN robots_parse(outcome.body) ELSE AllowAll

fetch_robots(outcome) ==
    IF outcome.kind = "response" /\ outcome.status_code = 200
    THEN robots_parse(outcome.body)
    ELSE AllowAll

(***************************************************************************)
(* rate_limiter.TokenBucket.  Time is counted in ticks of half a second    *)
(* and tokens in quarters of a token, in which the rates 1/2, 1 and 2 per  *)
(* second, their refills and the sleeps of 1/rate seconds are whole        *)
(* numbers.  time.monotonic() is read only as now - self._last_refill.     *)
(***************************************************************************)
Min(a, b) == IF a <= b THEN a ELSE b

\* A rate in tokens per second, as a fraction.
Rate(num, den) == [num |-> num, den |-> den]
ValidRates == {Rate(1, 2), Rate(1, 1), Rate(2, 1)}
InvalidRates == {Rate(0, 1), Rate(-1, 1)}

Ticks(seconds) == 2 * seconds
Tokens(n) == 4 * n

\* `rate` tokens, as max_tokens and the initial tokens are set (lines 14-15, 24).
as_tokens(rate) == (Tokens(1) * rate.num) \div rate.den
\* elapsed * rate for one tick.
per_tick(rate) == as_tokens(rate) \div Ticks(1)
\* 1.0 / rate seconds (line 41), in ticks.
sleep_ticks(rate) == (Ticks(1) * rate.den) \div rate.num

NoBucket == [rate |-> Rate(0, 1), max_tokens |-> 0, tokens |-> 0]

\* (mutant) a bucket constructed empty.
TokenBucket_empty(rate) ==
    IF rate.num <= 0 THEN [raised |-> TRUE, bucket |-> NoBucket]
    ELSE [raised |-> FALSE,
          bucket |-> [rate |-> rate, max_tokens |-> as_tokens(rate), tokens |-> 0]]

\* TokenBucket.__init__, lines 10-17: ValueError for rate <= 0, else a full
\* bucket whose last refill is now.
TokenBucket(rate) ==
    IF rate.num <= 0 THEN [raised |-> TRUE, bucket |-> NoBucket]
    ELSE [raised |-> FALSE,
          bucket |-> [rate |-> rate, max_tokens |-> as_tokens(rate),
                      tokens |-> as_tokens(rate)]]

\* (mutant) set_rate assigning before it checks.
set_rate_unchecked(b, rate) ==
    [raised |-> rate.num <= 0,
     bucket |-> [b EXCEPT !.rate = rate, !.max_tokens = as_tokens(rate)]]

\* TokenBucket.set_rate, lines 19-24.
set_rate(b, rate) ==
    IF rate.num <= 0 THEN [raised |-> TRUE, bucket |-> b]
    ELSE [raised |-> FALSE,
          bucket |-> [b EXCEPT !.rate = rate, !.max_tokens = as_tokens(rate)]]

\* (mutant) a refill that is not capped by max_tokens.
refill_uncapped(b, e) == [b EXCEPT !.tokens = b.tokens + e * per_tick(b.rate)]

\* acquire, lines 30-35: the refill for e ticks since the last refill.
refill(b, e) ==
    [b EXCEPT !.tokens = Min(b.max_tokens, b.tokens + e * per_tick(b.rate))]

\* (mutant) a turn that refills only when no whole token is left.
attempt_lazy_refill(b, e) ==
    LET r == IF b.tokens >= Tokens(1) THEN b ELSE refill(b, e)
    IN  IF r.tokens >= Tokens(1)
        THEN [returned |-> TRUE, bucket |-> [r EXCEPT !.tokens = @ - Tokens(1)],
              sleep |-> 0]
        ELSE [returned |-> FALSE, bucket |-> r, sleep |-> sleep_ticks(r.rate)]

\* acquire, lines 29-41: one turn of the loop, inside the lock: refill, then
\* take a token and return, or leave the lock and sleep 1/rate seconds.
attempt(b, e) ==
    LET r == refill(b, e)
    IN  IF r.tokens >= Tokens(1)
        THEN [returned |-> TRUE, bucket |-> [r EXCEPT !.tokens = @ - Tokens(1)],
              sleep |-> 0]
        ELSE [returned |-> FALSE, bucket |-> r, sleep |-> sleep_ticks(r.rate)]

Callers == 1 .. MaxCallers
Idle == [pc |-> "idle", sleep_left |-> 0]

\* What an observer of the bucket has seen: how it was constructed, whether
\* the last call raised ValueError, the argument of a set_rate call just
\* made, whether the rate was changed, whether time has advanced, the
\* Acquire calls and returns before it did, and the Acquire returns at each
\* of the last MaxWindow + 1 ticks (the current one first).
Observed(rate, raised) ==
    [rate |-> rate, raised |-> raised, set_rate |-> Rate(0, 0), changed |-> FALSE,
     advanced |-> FALSE, calls |-> 0, returns |-> 0,
     window |-> [k \in 1 .. MaxWindow + 1 |-> 0]]

(***************************************************************************)
(* State.                                                                  *)
(***************************************************************************)
VARIABLES
    \* a call of normalise_url or extract_urls
    input,            \* the arguments
    output,           \* what the calls made so far returned, in order

    \* a TokenBucket and its callers
    bucket,           \* rate, max_tokens, tokens
    elapsed,          \* now - last_refill in ticks, up to a full refill
    callers,          \* caller -> idle or sleeping in acquire, and for how long
    h_bucket,         \* what an observer of the bucket has seen

    \* CrawlerService fields and the argument of crawl()
    client,           \* the fetch port: which site it serves
    start_url,        \* crawl's start_url (normalised by crawl, line 86)
    max_concurrency,
    max_depth,        \* None or a depth
    max_pages,        \* None or a page count
    user_agent,       \* the name the robots oracle is asked about
    rate_limiter,     \* the rate limiter port: installed?, Acquire and SetRate calls
    \* locals of crawl()
    robots,           \* the robots oracle
    visited,          \* set of URLs
    url_queue,        \* sequence of work items [url, parent, depth]
    result_queue,     \* sequence of CrawlerResult and EndOfStream (Python None)
    semaphore,        \* free slots of asyncio.Semaphore(max_concurrency)
    in_progress,
    pages_crawled,
    done_event,       \* asyncio.Event flag
    \* tasks
    wpc,              \* worker task -> where it is suspended
    witem,            \* worker task -> the work item it holds
    must_cancel,      \* worker task -> cancellation requested
    runner,           \* the run_workers task
    shutdown,         \* the event loop is closing and has cancelled its tasks
    consumer,         \* the caller iterating crawl()
    received,         \* the results the caller has been given
    \* history
    h_seed,           \* the start_url crawl() was called with
    h_robots,         \* the URLs of the robots.txt fetches, in order
    h_enqueued,       \* bag of the work items ever put on url_queue
    h_fetched,        \* bag of the work items passed to client.fetch
    h_emitted,        \* the work items emitted, each with its result's url and number
    h_placed          \* everything ever put on result_queue, in order

cfg_vars == <<client, max_concurrency, max_depth, max_pages, user_agent>>
engine_vars == <<robots, visited, url_queue, semaphore, in_progress,
                 pages_crawled, done_event>>
task_vars == <<wpc, witem, must_cancel, runner, shutdown>>
hist_vars == <<h_seed, h_robots, h_enqueued, h_fetched, h_emitted, h_placed>>
crawl_vars == <<cfg_vars, start_url, rate_limiter, engine_vars, result_queue,
                task_vars, consumer, received, hist_vars>>
bucket_vars == <<bucket, elapsed, callers, h_bucket>>
parser_vars == <<input, output>>
vars == <<crawl_vars, bucket_vars, parser_vars>>

\* No call of the parser's functions on their own.
ParserIdle ==
    /\ input = <<>>
    /\ output = <<>>

\* No token bucket in use.
BucketIdle ==
    /\ bucket = NoBucket
    /\ elapsed = 0
    /\ callers = [c \in Callers |-> Idle]
    /\ h_bucket = Observed(Rate(0, 0), FALSE)

\* (mutant) __init__ storing one more than it was given.
self_max_concurrency_off_by_one == max_concurrency + 1

\* self._max_concurrency as stored by __init__.
self_max_concurrency == max_concurrency

Workers == 1 .. self_max_concurrency

NoItem == [url |-> Root, parent |-> Root, depth |-> None]
WorkItem(url, parent, depth) == [url |-> url, parent |-> parent, depth |-> depth]
NoParent == Url("", "", <<>>, "", "")

CrawlerResult(url, links) == [url |-> url, links |-> links]
EndOfStream == [url |-> NoParent, links |-> <<>>]

\* The rate limiter port as the caller may install it: none, one whose
\* set_rate is a plain method (TokenBucket), one whose set_rate is a coroutine
\* function (the tests' limiters).  acquires counts the Acquire calls made,
\* rates lists the arguments of the SetRate calls the limiter has run.
RateLimiter(installed, awaitable) ==
    [installed |-> installed, awaitable |-> awaitable, acquires |-> 0, rates |-> <<>>]

RateLimiters ==
    {RateLimiter(FALSE, FALSE), RateLimiter(TRUE, FALSE), RateLimiter(TRUE, TRUE)}

\* The locals of crawl() and the tasks before crawl() is called.
CrawlLocals ==
    /\ robots = AllowAll
    /\ visited = {}
    /\ url_queue = <<>>
    /\ result_queue = <<>>
    /\ semaphore = 0
    /\ in_progress = 0
    /\ pages_crawled = 0
    /\ done_event = FALSE
    /\ wpc = [w \in Workers |-> "none"]
    /\ witem = [w \in Workers |-> NoItem]
    /\ must_cancel = [w \in Workers |-> FALSE]
    /\ runner = "none"
    /\ shutdown = FALSE
    /\ consumer = "idle"
    /\ received = <<>>
    /\ h_seed = start_url
    /\ h_robots = <<>>
    /\ h_enqueued = EmptyBag
    /\ h_fetched = EmptyBag
    /\ h_emitted = {}
    /\ h_placed = <<>>

\* The state after CrawlerService.__init__, for the callers of the tests: the
\* seed with a trailing slash on the site written for it, a seed that is no
\* http URL on the faulty site, a named user agent and a limiter with an
\* awaitable set_rate on the site whose robots.txt has groups and Crawl-delay
\* lines.
Init ==
    /\ client \in Sites
    /\ start_url \in (IF client = "cycle" THEN Seeds
                      ELSE IF client = "faulty" THEN {Root} \cup BadSeeds
                      ELSE {Root})
    /\ max_concurrency \in 1 .. MaxConcurrency
    /\ max_depth \in {None} \cup (0 .. MaxDepth)
    /\ max_pages \in {None} \cup (0 .. MaxPages)
    /\ user_agent \in (IF client = "robots" THEN UserAgents ELSE {Star})
    /\ rate_limiter \in (IF client = "robots" THEN RateLimiters
                         ELSE {rl \in RateLimiters : ~rl.awaitable})
    /\ CrawlLocals
    /\ BucketIdle
    /\ ParserIdle

\* (mutant) _fetch going to the fetch port without an Acquire.
acquire_skipped(rl) == rl

\* _fetch, lines 51-52: one Acquire when a rate limiter is installed.
acquire(rl) == IF rl.installed THEN [rl EXCEPT !.acquires = @ + 1] ELSE rl

\* rate_limiter.set_rate(rate) as a call expression that is not awaited: a
\* plain method runs, a coroutine function only builds a coroutine.
set_rate_call(rl, rate) ==
    IF rl.awaitable THEN rl ELSE [rl EXCEPT !.rates = Append(@, rate)]

\* crawl, lines 73-76: SetRate(1/crawl_delay), the rate kept as a fraction.
set_crawl_delay(rl, delay) ==
    IF rl.installed /\ delay # None /\ delay > 0
    THEN set_rate_call(rl, [num |-> 1, den |-> delay])
    ELSE rl

(***************************************************************************)
(* crawl(), line 71: the generator's first run, up to the suspension of    *)
(* _fetch_robots in Acquire, if a limiter is installed, else in            *)
(* client.fetch.  No other task of the crawl exists yet.                   *)
(***************************************************************************)
FetchRobots ==
    /\ consumer = "idle"
    /\ rate_limiter' = acquire(rate_limiter)
    /\ IF rate_limiter.installed
       THEN consumer' = "acquiring" /\ UNCHANGED h_robots
       ELSE /\ consumer' = "robots"
            /\ h_robots' = Append(h_robots, robots_url(start_url))
    /\ UNCHANGED <<parser_vars, bucket_vars, cfg_vars, start_url, engine_vars, result_queue, task_vars,
                   received, h_seed, h_enqueued, h_fetched, h_emitted, h_placed>>

\* _fetch, lines 52-53: Acquire returns and client.fetch(robots_url) is called.
RobotsAcquireReturns ==
    /\ consumer = "acquiring"
    /\ consumer' = "robots"
    /\ h_robots' = Append(h_robots, robots_url(start_url))
    /\ UNCHANGED <<parser_vars, bucket_vars, cfg_vars, start_url, rate_limiter, engine_vars, result_queue,
                   task_vars, received, h_seed, h_enqueued, h_fetched, h_emitted,
                   h_placed>>

\* lines 86-88: the seed's work item.
seed_item(url) == WorkItem(normalise_url(url), NoParent, 0)

(***************************************************************************)
(* crawl(), lines 71-88 and 176: the robots.txt fetch has ended; the       *)
(* generator runs up to its first result_queue.get().                      *)
(***************************************************************************)
CrawlStart ==
    /\ consumer = "robots"
    /\ LET rp == fetch_robots(client_fetch(client, robots_url(start_url)))
           item == seed_item(start_url)
       IN  /\ robots' = rp
           /\ rate_limiter' = set_crawl_delay(rate_limiter, crawl_delay(rp, user_agent))
           /\ start_url' = item.url
           /\ visited' = {item.url}
           /\ url_queue' = <<item>>
           /\ h_enqueued' = SetToBag({item})
    /\ semaphore' = self_max_concurrency
    /\ runner' = "created"
    /\ consumer' = "reading"
    /\ UNCHANGED <<parser_vars, bucket_vars, cfg_vars, result_queue, in_progress, pages_crawled, done_event,
                   wpc, witem, must_cancel, shutdown, received, h_seed, h_robots,
                   h_fetched, h_emitted, h_placed>>

\* run_workers(), lines 166-170: create the worker tasks and await gather.
RunWorkersStart ==
    /\ runner = "created"
    /\ runner' = "gather"
    /\ wpc' = [w \in Workers |-> "start"]
    /\ UNCHANGED <<parser_vars, bucket_vars, cfg_vars, start_url, rate_limiter, engine_vars, result_queue,
                   witem, must_cancel, shutdown, consumer, received, hist_vars>>

(***************************************************************************)
(* worker(), lines 90-163.                                                 *)
(***************************************************************************)
\* lines 104 and 143-146: max_pages is set and reached.
page_cap_reached(pages) == max_pages # None /\ pages >= max_pages

\* (mutant) the depth test off by one.
may_enqueue_too_deep(link, vis, depth) ==
    /\ link \notin vis
    /\ is_same_domain(link, start_url)
    /\ can_fetch(robots, user_agent, link)
    /\ (max_depth = None \/ depth <= max_depth)

\* (mutant) the enqueue predicate without the visited test.
may_enqueue_revisit(link, vis, depth) ==
    /\ is_same_domain(link, start_url)
    /\ can_fetch(robots, user_agent, link)
    /\ (max_depth = None \/ depth + 1 <= max_depth)

\* lines 150-158: the enqueue predicate for one link of a page of depth `depth`.
may_enqueue(link, vis, depth) ==
    /\ link \notin vis
    /\ is_same_domain(link, start_url)
    /\ can_fetch(robots, user_agent, link)
    /\ (max_depth = None \/ depth + 1 <= max_depth)

\* line 160: the work item of a link found on final_url.
child_item(link, final_url, depth) == WorkItem(link, final_url, depth + 1)

\* (mutant) the link put on the queue without being added to visited.
enqueue_link_unmarked(link, final_url, depth, st) ==
    IF may_enqueue(link, st.visited, depth)
    THEN [st EXCEPT !.url_queue = Append(@, child_item(link, final_url, depth)),
                    !.h_enqueued = @ (+) SetToBag({child_item(link, final_url, depth)})]
    ELSE st

\* lines 151-160: one link of the loop; st holds visited and url_queue.
enqueue_link(link, final_url, depth, st) ==
    IF may_enqueue(link, st.visited, depth)
    THEN [st EXCEPT !.visited = @ \cup {link},
                    !.url_queue = Append(@, child_item(link, final_url, depth)),
                    !.h_enqueued = @ (+) SetToBag({child_item(link, final_url, depth)})]
    ELSE st

\* (mutant) a loop that stops after the first link.
enqueue_links_first_only(links, final_url, depth, st) ==
    IF links = <<>> THEN st ELSE enqueue_link(Head(links), final_url, depth, st)

\* lines 149-160: the loop over the links, in order.
RECURSIVE enqueue_links(_, _, _, _)
enqueue_links(links, final_url, depth, st) ==
    IF links = <<>> THEN st
    ELSE Then(enqueue_link(Head(links), final_url, depth, st),
              LAMBDA st1 : enqueue_links(Tail(links), final_url, depth, st1))

\* The locals of crawl() that the handling of a response reads and writes.
Frame ==
    [visited |-> visited, url_queue |-> url_queue, result_queue |-> result_queue,
     pages_crawled |-> pages_crawled, h_enqueued |-> h_enqueued,
     h_emitted |-> h_emitted, h_placed |-> h_placed]

\* (mutant) a result that reports only the links of the seed's host.
emit_same_domain_links(item, final_url, links, st) ==
    [st EXCEPT !.pages_crawled = @ + 1,
               !.result_queue = Append(@, CrawlerResult(final_url,
                                   SelectSeq(links, LAMBDA l : is_same_domain(l, start_url)))),
               !.h_emitted = @ \cup {[item |-> item, url |-> final_url,
                                       nth |-> st.pages_crawled + 1]},
               !.h_placed = Append(@, CrawlerResult(final_url,
                                   SelectSeq(links, LAMBDA l : is_same_domain(l, start_url))))]

\* (mutant) a result put at the head of result_queue instead of its tail.
emit_at_head(item, final_url, links, st) ==
    [st EXCEPT !.pages_crawled = @ + 1,
               !.result_queue = <<CrawlerResult(final_url, links)>> \o @,
               !.h_emitted = @ \cup {[item |-> item, url |-> final_url,
                                       nth |-> st.pages_crawled + 1]},
               !.h_placed = Append(@, CrawlerResult(final_url, links))]

\* lines 138-141: count the page and put its result on result_queue.
emit(item, final_url, links, st) ==
    [st EXCEPT !.pages_crawled = @ + 1,
               !.result_queue = Append(@, CrawlerResult(final_url, links)),
               !.h_emitted = @ \cup {[item |-> item, url |-> final_url,
                                       nth |-> st.pages_crawled + 1]},
               !.h_placed = Append(@, CrawlerResult(final_url, links))]

\* (mutant) an HTML response handled without the same-domain test.
handle_html_offsite(item, response, final_url, st) ==
    Then(extract_urls(response.body.links, final_url), LAMBDA links :
    Then(emit(item, final_url, links, st), LAMBDA st2 :
         IF page_cap_reached(st2.pages_crawled) THEN st2
         ELSE enqueue_links(links, final_url, item.depth, st2)))

\* (mutant) an HTML response handled without the cap test after the emit.
handle_html_no_cap_stop(item, response, final_url, st) ==
    IF ~is_same_domain(final_url, start_url) THEN st
    ELSE Then(extract_urls(response.body.links, final_url), LAMBDA links :
         Then(emit(item, final_url, links, st), LAMBDA st2 :
              enqueue_links(links, final_url, item.depth, st2)))

\* lines 131-160: an HTML response: redirect fixup, emit, enqueue the links.
handle_html(item, response, final_url, st) ==
    IF ~is_same_domain(final_url, start_url) THEN st
    ELSE Then(extract_urls(response.body.links, final_url), LAMBDA links :
         Then(emit(item, final_url, links, st), LAMBDA st2 :
              IF page_cap_reached(st2.pages_crawled) THEN st2
              ELSE enqueue_links(links, final_url, item.depth, st2)))

\* (mutant) a response handled without the status test.
handle_response_any_status(item, response, st) ==
    IF ~has_text_html(response.content_type) THEN st
    ELSE Then(normalise_url(response.url), LAMBDA final_url :
              handle_html(item, response, final_url,
                          [st EXCEPT !.visited = @ \cup {final_url}]))

\* lines 119-160: what the worker does with a response, up to `finally`.
handle_response(item, response, st) ==
    IF response.status_code # 200 THEN st
    ELSE IF ~has_text_html(response.content_type) THEN st
    ELSE Then(normalise_url(response.url), LAMBDA final_url :
              handle_html(item, response, final_url,
                          [st EXCEPT !.visited = @ \cup {final_url}]))

\* (mutant) the naive loop: a worker finding the queue empty returns.
RECURSIVE worker_loop_naive(_, _, _, _, _)
worker_loop_naive(q, pages, inprog, sem, woke) ==
    IF q = <<>>
    THEN [pc |-> "returned",
          item |-> NoItem, url_queue |-> q, in_progress |-> inprog,
          semaphore |-> sem, woke |-> woke, cleared |-> FALSE]
    ELSE IF page_cap_reached(pages)
    THEN worker_loop_naive(Tail(q), pages, inprog, sem, TRUE)
    ELSE [pc |-> IF sem = 0 THEN "sem_wait"
                 ELSE IF rate_limiter.installed THEN "acquiring" ELSE "fetching",
          item |-> Head(q), url_queue |-> Tail(q), in_progress |-> inprog + 1,
          semaphore |-> IF sem = 0 THEN 0 ELSE sem - 1,
          woke |-> woke, cleared |-> FALSE]

\* (mutant) a worker finding the queue empty waits without testing in_progress.
RECURSIVE worker_loop_always_waits(_, _, _, _, _)
worker_loop_always_waits(q, pages, inprog, sem, woke) ==
    IF q = <<>>
    THEN [pc |-> "waiting",
          item |-> NoItem, url_queue |-> q, in_progress |-> inprog,
          semaphore |-> sem, woke |-> woke, cleared |-> TRUE]
    ELSE IF page_cap_reached(pages)
    THEN worker_loop_always_waits(Tail(q), pages, inprog, sem, TRUE)
    ELSE [pc |-> IF sem = 0 THEN "sem_wait"
                 ELSE IF rate_limiter.installed THEN "acquiring" ELSE "fetching",
          item |-> Head(q), url_queue |-> Tail(q), in_progress |-> inprog + 1,
          semaphore |-> IF sem = 0 THEN 0 ELSE sem - 1,
          woke |-> woke, cleared |-> FALSE]

\* (mutant) the loop without the page-cap test of line 104.
worker_loop_no_cap(q, pages, inprog, sem, woke) ==
    IF q = <<>>
    THEN [pc |-> IF inprog = 0 THEN "returned" ELSE "waiting",
          item |-> NoItem, url_queue |-> q, in_progress |-> inprog,
          semaphore |-> sem, woke |-> woke, cleared |-> inprog # 0]
    ELSE [pc |-> IF sem = 0 THEN "sem_wait"
                 ELSE IF rate_limiter.installed THEN "acquiring" ELSE "fetching",
          item |-> Head(q), url_queue |-> Tail(q), in_progress |-> inprog + 1,
          semaphore |-> IF sem = 0 THEN 0 ELSE sem - 1,
          woke |-> woke, cleared |-> FALSE]

\* lines 92-109: the loop from its head to the worker's next suspension point
\* or return.  An item dequeued after the page cap is dropped (in_progress
\* goes up and down again, done_event is set) and the loop goes on.  The
\* semaphore has as many slots as there are workers; a worker finding no free
\* slot would park in "sem_wait".
RECURSIVE worker_loop(_, _, _, _, _)
worker_loop(q, pages, inprog, sem, woke) ==
    IF q = <<>>
    THEN [pc |-> IF inprog = 0 THEN "returned" ELSE "waiting",
          item |-> NoItem, url_queue |-> q, in_progress |-> inprog,
          semaphore |-> sem, woke |-> woke, cleared |-> inprog # 0]
    ELSE IF page_cap_reached(pages)
    THEN worker_loop(Tail(q), pages, inprog, sem, TRUE)
    ELSE [pc |-> IF sem = 0 THEN "sem_wait"
                 ELSE IF rate_limiter.installed THEN "acquiring" ELSE "fetching",
          item |-> Head(q), url_queue |-> Tail(q), in_progress |-> inprog + 1,
          semaphore |-> IF sem = 0 THEN 0 ELSE sem - 1,
          woke |-> woke, cleared |-> FALSE]

\* (mutant) done_event.set() that wakes nobody.
wake_nobody(pcs) == pcs

\* done_event.set() wakes every worker suspended in done_event.wait().
wake(pcs) == [v \in DOMAIN pcs |-> IF pcs[v] = "waiting" THEN "woken" ELSE pcs[v]]

\* Worker w, with the crawl's locals as in st, runs the loop from its head.
Continue(w, st, inprog, sem, woke) ==
    \E r \in {worker_loop(st.url_queue, st.pages_crawled, inprog, sem, woke)} :
        /\ wpc' = [(IF r.woke THEN wake(wpc) ELSE wpc) EXCEPT ![w] = r.pc]
        /\ witem' = [witem EXCEPT ![w] = r.item]
        /\ url_queue' = r.url_queue
        /\ in_progress' = r.in_progress
        /\ semaphore' = r.semaphore
        /\ done_event' = IF r.cleared THEN FALSE ELSE IF r.woke THEN TRUE ELSE done_event
        /\ rate_limiter' = IF r.pc = "acquiring" THEN acquire(rate_limiter) ELSE rate_limiter
        /\ h_fetched' = IF r.pc = "fetching" THEN h_fetched (+) SetToBag({r.item})
                        ELSE h_fetched
        /\ visited' = st.visited
        /\ result_queue' = st.result_queue
        /\ pages_crawled' = st.pages_crawled
        /\ h_enqueued' = st.h_enqueued
        /\ h_emitted' = st.h_emitted
        /\ h_placed' = st.h_placed
        /\ h_seed' = h_seed
        /\ h_robots' = h_robots
        /\ UNCHANGED <<parser_vars, bucket_vars, cfg_vars, start_url, robots, must_cancel, runner, shutdown,
                       consumer, received>>

\* The task starts, or resumes from done_event.wait().
WorkerResume(w) ==
    /\ wpc[w] \in {"start", "woken"}
    /\ ~must_cancel[w]
    /\ \E st \in {Frame} : Continue(w, st, in_progress, semaphore, FALSE)

\* rate_limiter.acquire() returns; _fetch calls client.fetch (line 53).
AcquireReturns(w) ==
    /\ wpc[w] = "acquiring"
    /\ ~must_cancel[w]
    /\ wpc' = [wpc EXCEPT ![w] = "fetching"]
    /\ h_fetched' = h_fetched (+) SetToBag({witem[w]})
    /\ UNCHANGED <<parser_vars, bucket_vars, cfg_vars, start_url, rate_limiter, engine_vars, result_queue,
                   witem, must_cancel, runner, shutdown, consumer, received,
                   h_seed, h_robots, h_enqueued, h_emitted, h_placed>>

\* (mutant) the FetchError path going back to the loop without done_event.set().
FetchRaisesFetchError_no_set(w) ==
    /\ wpc[w] = "fetching"
    /\ ~must_cancel[w]
    /\ client_fetch(client, witem[w].url).kind = "FetchError"
    /\ \E st \in {Frame} : Continue(w, st, in_progress - 1, semaphore + 1, FALSE)

\* client.fetch raises FetchError: lines 110-117, then `finally`, then the loop.
FetchRaisesFetchError(w) ==
    /\ wpc[w] = "fetching"
    /\ ~must_cancel[w]
    /\ client_fetch(client, witem[w].url).kind = "FetchError"
    /\ \E st \in {Frame} : Continue(w, st, in_progress - 1, semaphore + 1, TRUE)

\* client.fetch returns a response: lines 119-160, then `finally`, then the loop.
FetchReturns(w) ==
    /\ wpc[w] = "fetching"
    /\ ~must_cancel[w]
    /\ client_fetch(client, witem[w].url).kind = "response"
    /\ \E st \in {handle_response(witem[w], client_fetch(client, witem[w].url), Frame)} :
          Continue(w, st, in_progress - 1, semaphore + 1, TRUE)

\* (mutant) the exception leaves the worker without the `finally` block.
FetchRaisesUnexpected_no_finally(w) ==
    /\ wpc[w] = "fetching"
    /\ ~must_cancel[w]
    /\ client_fetch(client, witem[w].url).kind = "RuntimeError"
    /\ wpc' = [wpc EXCEPT ![w] = "raised"]
    /\ semaphore' = semaphore + 1
    /\ UNCHANGED <<parser_vars, bucket_vars, cfg_vars, start_url, rate_limiter, robots, visited, url_queue,
                   pages_crawled, result_queue, witem, must_cancel, runner,
                   shutdown, consumer, received, hist_vars, in_progress,
                   done_event>>

\* client.fetch raises another exception: the semaphore is released, `finally`
\* runs (lines 161-163) and the exception ends the worker task.
FetchRaisesUnexpected(w) ==
    /\ wpc[w] = "fetching"
    /\ ~must_cancel[w]
    /\ client_fetch(client, witem[w].url).kind = "RuntimeError"
    /\ wpc' = [wake(wpc) EXCEPT ![w] = "raised"]
    /\ in_progress' = in_progress - 1
    /\ semaphore' = semaphore + 1
    /\ done_event' = TRUE
    /\ UNCHANGED <<parser_vars, bucket_vars, cfg_vars, start_url, rate_limiter, robots, visited, url_queue,
                   pages_crawled, result_queue, witem, must_cancel, runner,
                   shutdown, consumer, received, hist_vars>>

Suspended == {"start", "waiting", "woken", "acquiring", "fetching", "sem_wait"}
Holding == {"acquiring", "fetching", "sem_wait"}
Finished == {"returned", "raised", "cancelled"}

\* A cancelled worker task gets CancelledError where it is suspended.  Inside
\* the try block (holding an item) the semaphore is released and `finally`
\* runs; in done_event.wait() or before its first step the task just ends.
WorkerCancelled(w) ==
    /\ wpc[w] \in Suspended
    /\ must_cancel[w]
    /\ IF wpc[w] \in Holding
       THEN /\ wpc' = [wake(wpc) EXCEPT ![w] = "cancelled"]
            /\ in_progress' = in_progress - 1
            /\ semaphore' = IF wpc[w] = "sem_wait" THEN semaphore ELSE semaphore + 1
            /\ done_event' = TRUE
       ELSE /\ wpc' = [wpc EXCEPT ![w] = "cancelled"]
            /\ UNCHANGED <<in_progress, semaphore, done_event>>
    /\ UNCHANGED <<parser_vars, bucket_vars, cfg_vars, start_url, rate_limiter, robots, visited, url_queue,
                   pages_crawled, result_queue, witem, must_cancel, runner,
                   shutdown, consumer, received, hist_vars>>

(***************************************************************************)
(* run_workers(), lines 169-174: gather ends when every worker returned or *)
(* when the first worker ended with an exception or cancelled; `finally`   *)
(* cancels the worker tasks still running and puts the end-of-stream None. *)
(***************************************************************************)
\* (mutant) a `finally` that cancels no worker.
cancel_nobody(mc) == mc

\* lines 172-173: t.cancel() for every worker task; a finished task ignores it.
cancel_all(mc) == [w \in Workers |-> mc[w] \/ wpc[w] \notin Finished]

gather_ended ==
    \/ \A w \in Workers : wpc[w] = "returned"
    \/ \E w \in Workers : wpc[w] \in {"raised", "cancelled"}

\* (mutant) gather collecting the workers' exceptions instead of raising.
gather_outcome_swallowed == IF shutdown THEN "cancelled" ELSE "done"

\* What run_workers ends with: CancelledError once the loop cancelled it, else
\* the first worker exception, else nothing.
gather_outcome ==
    IF shutdown THEN "cancelled"
    ELSE IF \E w \in Workers : wpc[w] = "raised" THEN "raised"
    ELSE "done"

RunWorkersFinally ==
    /\ runner = "gather"
    /\ gather_ended
    /\ runner' = gather_outcome
    /\ must_cancel' = cancel_all(must_cancel)
    /\ result_queue' = Append(result_queue, EndOfStream)
    /\ h_placed' = Append(h_placed, EndOfStream)
    /\ UNCHANGED <<parser_vars, bucket_vars, cfg_vars, start_url, rate_limiter, engine_vars, wpc, witem,
                   shutdown, consumer, received, h_seed, h_robots, h_enqueued,
                   h_fetched, h_emitted>>

\* asyncio.run ends after the caller left the iteration: every task still
\* pending is cancelled.
LoopShutdown ==
    /\ consumer = "abandoned"
    /\ ~shutdown
    /\ shutdown' = TRUE
    /\ must_cancel' = cancel_all(must_cancel)
    /\ UNCHANGED <<parser_vars, bucket_vars, cfg_vars, start_url, rate_limiter, engine_vars, result_queue,
                   wpc, witem, runner, consumer, received, hist_vars>>

(***************************************************************************)
(* The caller, lines 178-184: each read takes the next item of             *)
(* result_queue; None ends the loop and `await task` re-raises what        *)
(* run_workers ended with.                                                 *)
(***************************************************************************)
ConsumerRead ==
    /\ consumer = "reading"
    /\ result_queue # <<>>
    /\ result_queue' = Tail(result_queue)
    /\ IF Head(result_queue) = EndOfStream
       THEN /\ consumer' = (IF runner = "done" THEN "finished" ELSE "raised")
            /\ UNCHANGED received
       ELSE /\ received' = Append(received, Head(result_queue))
            /\ UNCHANGED consumer
    /\ UNCHANGED <<parser_vars, bucket_vars, cfg_vars, start_url, rate_limiter, engine_vars, task_vars,
                   hist_vars>>

\* The caller stops reading after some result (break, or dropping the iterator).
ConsumerAbandon ==
    /\ consumer = "reading"
    /\ received # <<>>
    /\ consumer' = "abandoned"
    /\ UNCHANGED <<parser_vars, bucket_vars, cfg_vars, start_url, rate_limiter, engine_vars, result_queue,
                   task_vars, received, hist_vars>>

Next ==
    \/ FetchRobots
    \/ RobotsAcquireReturns
    \/ CrawlStart
    \/ RunWorkersStart
    \/ \E w \in Workers : WorkerResume(w)
    \/ \E w \in Workers : AcquireReturns(w)
    \/ \E w \in Workers : FetchRaisesFetchError(w)
    \/ \E w \in Workers : FetchReturns(w)
    \/ \E w \in Workers : FetchRaisesUnexpected(w)
    \/ \E w \in Workers : WorkerCancelled(w)
    \/ RunWorkersFinally
    \/ LoopShutdown
    \/ ConsumerRead
    \/ ConsumerAbandon

Spec == Init /\ [][Next]_vars

(***************************************************************************)
(* A caller that keeps reading, on an event loop that keeps running every  *)
(* task that is ready: each fetch and each Acquire that was started ends,  *)
(* each ready task is resumed, each result put on the stream is read.      *)
(***************************************************************************)
NextReading ==
    \/ FetchRobots
    \/ RobotsAcquireReturns
    \/ CrawlStart
    \/ RunWorkersStart
    \/ \E w \in Workers : WorkerResume(w)
    \/ \E w \in Workers : AcquireReturns(w)
    \/ \E w \in Workers : FetchRaisesFetchError(w)
    \/ \E w \in Workers : FetchReturns(w)
    \/ \E w \in Workers : FetchRaisesUnexpected(w)
    \/ \E w \in Workers : WorkerCancelled(w)
    \/ RunWorkersFinally
    \/ ConsumerRead

\* Every step of NextReading is one ready task being run, so the loop not
\* stopping while a task is ready is weak fairness of NextReading.
Fairness == WF_vars(NextReading)

FairSpec == Init /\ [][NextReading]_vars /\ Fairness

\* Any caller, one that may abandon the stream too, on a loop that keeps
\* running what is ready (and, once the caller is gone, may shut down).
FairAnySpec == Init /\ [][Next]_vars /\ WF_vars(Next)

\* The crawls of Init, and crawls of the lattice site with a depth limit of
\* up to MaxDepth + 1, no page cap and no rate limiter.
LatticeInit ==
    /\ client = "lattice"
    /\ start_url = Root
    /\ max_concurrency \in 1 .. MaxConcurrency
    /\ max_depth \in {None} \cup (0 .. MaxDepth + 1)
    /\ max_pages = None
    /\ user_agent = Star
    /\ rate_limiter = RateLimiter(FALSE, FALSE)
    /\ CrawlLocals
    /\ BucketIdle
    /\ ParserIdle

LatticeSpec == (Init \/ LatticeInit) /\ [][Next]_vars

(***************************************************************************)
(* TokenBucket: its callers, the clock and set_rate.                       *)
(***************************************************************************)
\* A crawler that is constructed and never used.
CrawlIdle ==
    /\ client = "cycle"
    /\ start_url = Root
    /\ max_concurrency = 1
    /\ max_depth = None
    /\ max_pages = None
    /\ user_agent = Star
    /\ rate_limiter = RateLimiter(FALSE, FALSE)
    /\ CrawlLocals

\* TokenBucket(rate), for a valid or an invalid rate.
BucketInit ==
    /\ CrawlIdle
    /\ \E rate \in ValidRates \cup InvalidRates :
          /\ bucket = TokenBucket(rate).bucket
          /\ h_bucket = Observed(rate, TokenBucket(rate).raised)
    /\ elapsed = 0
    /\ callers = [c \in Callers |-> Idle]
    /\ ParserIdle

Constructed == bucket # NoBucket

\* The observer's record of one turn of acquire's loop.
observe_attempt(h, call, returned) ==
    [h EXCEPT !.raised = FALSE,
              !.set_rate = Rate(0, 0),
              !.calls = IF h.advanced \/ h.changed \/ ~call THEN @ ELSE @ + 1,
              !.returns = IF h.advanced \/ h.changed \/ ~returned THEN @ ELSE @ + 1,
              !.window = IF h.changed \/ ~returned THEN @
                         ELSE [@ EXCEPT ![1] = @ + 1]]

\* Caller c runs one turn of the loop of acquire (lines 28-41); nothing else
\* runs inside the lock, where there is no suspension point.
Turn(c, call) ==
    \E a \in {attempt(bucket, elapsed)} :
        /\ bucket' = a.bucket
        /\ elapsed' = 0
        /\ callers' = [callers EXCEPT ![c] =
                          IF a.returned THEN Idle
                          ELSE [pc |-> "sleeping", sleep_left |-> a.sleep]]
        /\ h_bucket' = observe_attempt(h_bucket, call, a.returned)
        /\ UNCHANGED <<crawl_vars, parser_vars>>

\* A task calls acquire().
BucketAcquire(c) ==
    /\ Constructed
    /\ callers[c].pc = "idle"
    /\ Turn(c, TRUE)

\* asyncio.sleep(1.0 / rate) has ended, at the deadline or later.
BucketWake(c) ==
    /\ callers[c].pc = "sleeping"
    /\ callers[c].sleep_left = 0
    /\ Turn(c, FALSE)

\* The clock advances by one tick.
BucketTick ==
    /\ Constructed
    /\ elapsed' = Min(Ticks(1), elapsed + 1)
    /\ callers' = [c \in Callers |->
                     [callers[c] EXCEPT !.sleep_left = IF @ > 0 THEN @ - 1 ELSE 0]]
    /\ h_bucket' = [h_bucket EXCEPT
                       !.raised = FALSE,
                       !.set_rate = Rate(0, 0),
                       !.advanced = TRUE,
                       !.window = [k \in 1 .. MaxWindow + 1 |->
                                     IF k = 1 THEN 0 ELSE h_bucket.window[k - 1]]]
    /\ UNCHANGED <<bucket, crawl_vars, parser_vars>>

\* Some task calls set_rate(rate), for a valid or an invalid rate.
BucketSetRate(rate) ==
    /\ Constructed
    /\ \E r \in {set_rate(bucket, rate)} :
          /\ bucket' = r.bucket
          /\ h_bucket' = [h_bucket EXCEPT
                             !.raised = r.raised,
                             !.set_rate = rate,
                             !.changed = @ \/ ~r.raised,
                             !.calls = IF r.raised THEN @ ELSE 0,
                             !.returns = IF r.raised THEN @ ELSE 0,
                             !.window = IF r.raised /\ ~h_bucket.changed THEN @
                                        ELSE [k \in 1 .. MaxWindow + 1 |-> 0]]
    /\ UNCHANGED <<elapsed, callers, crawl_vars, parser_vars>>

BucketNext ==
    \/ \E c \in Callers : BucketAcquire(c)
    \/ \E c \in Callers : BucketWake(c)
    \/ BucketTick
    \/ \E rate \in ValidRates \cup InvalidRates : BucketSetRate(rate)

BucketSpec == BucketInit /\ [][BucketNext]_vars

\* One task using the bucket, on a clock that keeps advancing and an event
\* loop that ends every sleep that is due.
BucketNextOne ==
    \/ BucketAcquire(1)
    \/ BucketWake(1)
    \/ BucketTick
    \/ \E rate \in ValidRates \cup InvalidRates : BucketSetRate(rate)

BucketFairSpec ==
    BucketInit /\ [][BucketNextOne]_vars /\ WF_vars(BucketTick) /\ WF_vars(BucketWake(1))

\* Several tasks using a bucket of a fixed rate of one token per second or
\* more, each calling acquire() whenever it likes, on a clock that keeps
\* advancing and an event loop that ends every sleep that is due.
BucketManyInit ==
    /\ BucketInit
    /\ bucket.rate \in {Rate(1, 1), Rate(2, 1)}

BucketNextMany ==
    \/ \E c \in Callers : BucketAcquire(c)
    \/ \E c \in Callers : BucketWake(c)
    \/ BucketTick

BucketManyFairSpec ==
    /\ BucketManyInit
    /\ [][BucketNextMany]_vars
    /\ WF_vars(BucketTick)
    /\ \A c \in Callers : WF_vars(BucketWake(c))

(***************************************************************************)
(* normalise_url called on a URL text, and again on what it returned.      *)
(***************************************************************************)
NormaliseInit ==
    /\ CrawlIdle
    /\ BucketIdle
    /\ input \in Texts
    /\ output = <<>>

\* normalise_url(input), then normalise_url of the last result.
Normalise ==
    /\ Len(output) < 2
    /\ output' = Append(output, normalise_url_text(IF output = <<>> THEN input
                                                    ELSE output[Len(output)]))
    /\ UNCHANGED <<input, crawl_vars, bucket_vars>>

NormaliseSpec == NormaliseInit /\ [][Normalise]_vars

(***************************************************************************)
(* extract_urls called on the attribute values of a body and a base.       *)
(***************************************************************************)
\* The references "/b" and "c".
RelB == Url("", "", <<"/", "b">>, "", "")
RelC == Url("", "", <<"c">>, "", "")
AttrValues == {PageA, PageASlash, PageBFrag, MailTo, EmptyText, FragmentOnly, RelB, RelC}
Bases == {Root, PageASlash, EmptyText}

ExtractInit ==
    /\ CrawlIdle
    /\ BucketIdle
    /\ input \in [html : UNION {[1 .. n -> AttrValues] : n \in 0 .. MaxValues},
                   base_url : Bases]
    /\ output = <<>>

\* extract_urls(html, base_url)
Extract ==
    /\ output = <<>>
    /\ output' = <<extract_urls(input.html, input.base_url)>>
    /\ UNCHANGED <<input, crawl_vars, bucket_vars>>

ExtractSpec == ExtractInit /\ [][Extract]_vars

(***************************************************************************)
(* HttpxClient.fetch, client.py lines 52-64: the attempts of one call.     *)
(* input is the call: whether the URL is empty, max_retries, retry_backoff *)
(* and what _do_fetch ends with at each attempt (a response, FetchError    *)
(* for an httpx.HTTPError, or another exception); output is what the call  *)
(* did so far: attempts, sleeps, and the return or raise that ends it.     *)
(***************************************************************************)
HttpxCalls ==
    [url_empty : BOOLEAN,
     max_retries : 0 .. MaxRetries,
     retry_backoff : 1 .. MaxBackoff,
     do_fetch : [0 .. MaxRetries -> {"response", "FetchError", "RuntimeError"}]]

Event(ev, n, arg) == [ev |-> ev, attempt |-> n, arg |-> arg]

\* (mutant) a retry loop that sleeps after the last attempt too.
fetch_next_always_sleeps(call, done) ==
    IF done = <<>>
    THEN IF call.url_empty THEN Event("raise", 0, "ValueError")
         ELSE Event("attempt", 0, "")
    ELSE LET last == done[Len(done)]
         IN  IF last.ev = "attempt"
             THEN IF call.do_fetch[last.attempt] = "response"
                  THEN Event("return", last.attempt, "response")
                  ELSE IF call.do_fetch[last.attempt] = "FetchError"
                  THEN Event("sleep", last.attempt,
                             call.retry_backoff * (2 ^ last.attempt))
                  ELSE Event("raise", last.attempt, call.do_fetch[last.attempt])
             ELSE IF last.attempt < call.max_retries
                  THEN Event("attempt", last.attempt + 1, "")
                  ELSE Event("raise", last.attempt, "FetchError")

\* lines 53-64: what the call does next after the events in `done`; a call
\* that has returned or raised does nothing more.
fetch_next(call, done) ==
    IF done = <<>>
    THEN IF call.url_empty THEN Event("raise", 0, "ValueError")
         ELSE Event("attempt", 0, "")
    ELSE LET last == done[Len(done)]
         IN  IF last.ev = "attempt"
             THEN IF call.do_fetch[last.attempt] = "response"
                  THEN Event("return", last.attempt, "response")
                  ELSE IF call.do_fetch[last.attempt] = "FetchError"
                  THEN IF last.attempt < call.max_retries
                       THEN Event("sleep", last.attempt,
                                  call.retry_backoff * (2 ^ last.attempt))
                       ELSE Event("raise", last.attempt, "FetchError")
                  ELSE Event("raise", last.attempt, call.do_fetch[last.attempt])
             ELSE Event("attempt", last.attempt + 1, "")

\* A call of fetch is under way (a crawl leaves input empty).
HttpxCalling == DOMAIN input # {}

HttpxInit ==
    /\ CrawlIdle
    /\ BucketIdle
    /\ input \in HttpxCalls
    /\ output = <<>>

\* One step of the call: an attempt, a sleep, its return or its raise.
HttpxFetch ==
    /\ HttpxCalling
    /\ IF output = <<>> THEN TRUE
       ELSE output[Len(output)].ev \in {"attempt", "sleep"}
    /\ output' = Append(output, fetch_next(input, output))
    /\ UNCHANGED <<input, crawl_vars, bucket_vars>>

\* A call of HttpxClient.fetch, or a crawl, whose fetch port ends each call
\* with one outcome.
HttpxNext ==
    \/ ~HttpxCalling /\ Next
    \/ HttpxFetch

HttpxSpec == (Init \/ HttpxInit) /\ [][HttpxNext]_vars

(***************************************************************************)
(* Properties.                                                             *)
(***************************************************************************)
Results(placed) == {k \in DOMAIN placed : placed[k] # EndOfStream}
Closings(placed) == {k \in DOMAIN placed : placed[k] = EndOfStream}

\* The number of calls of the fetch port, as a page, for the canonical URL u.
Once(bag) ==
    /\ \A i \in BagToSet(bag) : CopiesIn(i, bag) = 1
    /\ \A i, j \in BagToSet(bag) :
          normalise_url(i.url) = normalise_url(j.url) => i = j

\* C1: the fetch port is called at most once as a page for each canonical
\* URL: a URL is put on the work queue at most once, every fetch is the fetch
\* of a queued item, and each queued item is fetched at most once.
C1_FetchedAtMostOnce ==
    /\ Once(h_enqueued)
    /\ Once(h_fetched)
    /\ BagToSet(h_fetched) \subseteq BagToSet(h_enqueued)

\* The seed was given with a trailing slash, the site links back to it with
\* and without the slash, and the whole site was crawled.
C1_Witness ==
    /\ h_seed = RootSlash
    /\ client = "cycle"
    /\ consumer = "finished"
    /\ {i.url : i \in BagToSet(h_fetched)} = {Root, PageA, PageB, PageC}

\* C2: with max_pages = K the number of results put on the result stream
\* never exceeds K.
C2_ResultsWithinMaxPages ==
    max_pages # None => Cardinality(Results(h_placed)) <= max_pages

\* The fetch port of the crawl answers every call with a response or FetchError.
FetchNeverUnexpected ==
    \A u \in DOMAIN Responses(client) : Responses(client)[u].kind # "RuntimeError"

AllReturned == \A w \in Workers : wpc[w] = "returned"

\* C3: on a finite site whose fetches all end with a response or FetchError,
\* under fair scheduling every worker eventually exits, the result stream is
\* eventually closed, and a caller that keeps reading eventually gets the
\* end of the stream.
C3_Terminates ==
    <>[](FetchNeverUnexpected =>
            /\ AllReturned
            /\ Cardinality(Closings(h_placed)) = 1
            /\ consumer = "finished")

\* A crawl by two workers of the four-page chain has ended at the caller.
C3_Witness ==
    /\ client = "chain"
    /\ max_concurrency = 2
    /\ max_depth = None
    /\ max_pages = None
    /\ AllReturned
    /\ consumer = "finished"
    /\ Len(received) = 4

InFlight == {w \in Workers : wpc[w] = "fetching"}
Closed == Closings(h_placed) # {}
SomeRaised == \E w \in Workers : wpc[w] = "raised"

\* C4: a worker returns only when the work queue is empty and in_progress = 0,
\* so never while another worker holds an item; when the stream has closed
\* without error or cancellation every item ever enqueued was dequeued and
\* processed: fetched, or dropped because the page cap had been reached.
C4_ExitOnlyWhenIdle ==
    /\ \A w \in Workers : wpc[w] = "returned" =>
          /\ url_queue = <<>>
          /\ in_progress = 0
          /\ \A v \in Workers : wpc[v] \notin Holding
    /\ runner = "done" =>
          /\ url_queue = <<>>
          /\ \A i \in BagToSet(h_enqueued) :
                i \in BagToSet(h_fetched) \/ page_cap_reached(pages_crawled)

\* Two workers crawled the whole cyclic site and the stream closed normally.
C4_Witness ==
    /\ client = "cycle"
    /\ max_concurrency = 2
    /\ runner = "done"
    /\ AllReturned
    /\ BagCardinality(h_fetched) = 4
    /\ h_fetched = h_enqueued

ClosedAtMostOnce ==
    /\ Cardinality(Closings(h_placed)) <= 1
    /\ \A k \in Closings(h_placed) : k = Len(h_placed)
    /\ Closed <=> runner \in {"done", "raised", "cancelled"}

\* C5: in every run (normal completion, a worker's unexpected error, the
\* caller abandoning the stream, the loop cancelling the tasks) the
\* end-of-stream signal is put on the result stream exactly once: never more
\* than once, only when run_workers ends, eventually; and nothing is put on
\* the stream after it.
C5_ClosedOnce == []ClosedAtMostOnce /\ <>[]Closed

\* run_workers ended with a worker's error while another worker was fetching
\* a page that would have been emitted: that worker was cancelled, the stream
\* holds the seed's result and then the end-of-stream signal.
C5_Witness ==
    /\ client = "faulty"
    /\ runner = "raised"
    /\ \E w \in Workers : wpc[w] = "cancelled" /\ witem[w].url = PageB
    /\ Len(h_placed) = 2
    /\ h_placed[2] = EndOfStream

\* C6: once the caller has abandoned the stream, no worker dequeues a work
\* item or starts a fetch any more.
C6_AbandonStopsWorkers ==
    [][consumer = "abandoned" =>
          /\ h_fetched' = h_fetched
          /\ Len(url_queue') >= Len(url_queue)]_vars

\* C7: when a worker has raised an error other than FetchError and
\* run_workers has handled it, every other worker has finished or is
\* cancelled and the stream is closed; the iteration of a caller that keeps
\* reading cannot end normally, it eventually ends by raising that error,
\* and every worker eventually has ended.
ErrorHandled ==
    /\ runner = "raised" =>
          /\ SomeRaised
          /\ \A w \in Workers : wpc[w] \in Finished \/ must_cancel[w]
          /\ Closed
    /\ SomeRaised => consumer # "finished"
    /\ (SomeRaised /\ consumer \notin {"reading", "abandoned"}) => consumer = "raised"
    /\ consumer = "raised" => SomeRaised /\ runner = "raised"

C7_ErrorSurfaces ==
    /\ []ErrorHandled
    /\ SomeRaised ~> (consumer = "raised" /\ \A w \in Workers : wpc[w] \in Finished)

\* The error reached the caller, and a worker that was inside a fetch when
\* the error was handled has been cancelled there.
C7_Witness ==
    /\ consumer = "raised"
    /\ \E w, v \in Workers :
          /\ wpc[w] = "raised"
          /\ wpc[v] = "cancelled"
          /\ witem[v] # NoItem
    /\ in_progress = 0

\* C8: the number of page fetches in flight is at most max_concurrency, and
\* each of them holds one slot of the semaphore.
C8_InFlightBounded ==
    /\ Cardinality(InFlight) <= max_concurrency
    /\ semaphore >= 0
    /\ Cardinality(InFlight) + semaphore <= max_concurrency

\* As many fetches in flight as max_concurrency allows, more than one.
C8_Witness ==
    /\ max_concurrency = MaxConcurrency
    /\ Cardinality(InFlight) = max_concurrency
    /\ semaphore = 0

\* C9: the seed's work item has depth 0; a link enqueued while processing an
\* item of depth d has depth d + 1; with max_depth = D no item of depth
\* greater than D is enqueued, fetched or emitted; with max_depth unset (and
\* no page cap) the chain site is crawled to its end, three links deep.
C9_DepthBounded ==
    /\ \A i \in BagToSet(h_enqueued) :
          /\ i.parent = NoParent => i.depth = 0 /\ i.url = start_url
          /\ i.parent # NoParent =>
                \E e \in h_emitted : e.url = i.parent /\ i.depth = e.item.depth + 1
          /\ max_depth # None => i.depth <= max_depth
    /\ \A i \in BagToSet(h_fetched) : i \in BagToSet(h_enqueued)
    /\ \A e \in h_emitted : e.item \in BagToSet(h_fetched)
    /\ (client = "chain" /\ max_depth = None /\ max_pages = None /\ runner = "done") =>
          \E e \in h_emitted : e.url = PageC /\ e.item.depth = 3

\* The chain site crawled with max_depth = 1: /b, found at depth 2, was not
\* enqueued.
C9_Witness ==
    /\ client = "chain"
    /\ max_depth = 1
    /\ max_pages = None
    /\ runner = "done"
    /\ {e.url : e \in h_emitted} = {Root, PageA}
    /\ PageB \notin visited

\* C10: for a crawl asked to keep max_visited = MaxVisited, the visited set
\* never holds more than MaxVisited URLs and at most MaxVisited results are
\* emitted.
C10_VisitedWithinCap ==
    /\ Cardinality(visited) <= MaxVisited
    /\ Cardinality(Results(h_placed)) <= MaxVisited

\* What the fetch port answers for the work item i.
Outcome(i) == client_fetch(client, i.url)
EmittedUrls == {e.url : e \in h_emitted}
FetchedUrls == {i.url : i \in BagToSet(h_fetched)}
EnqueuedUrls == {i.url : i \in BagToSet(h_enqueued)}

\* C11: every result put on the stream has as url the normalised final URL
\* of a response with status 200 and an HTML content type whose authority is
\* the seed's; so a fetch ending on another host, with another status or
\* with another content type emits no result.
C11_EmittedAreHtmlPages ==
    /\ \A k \in Results(h_placed) :
          \E e \in h_emitted : e.url = h_placed[k].url /\ e.item \in BagToSet(h_fetched)
    /\ \A e \in h_emitted :
          /\ Outcome(e.item).kind = "response"
          /\ Outcome(e.item).status_code = 200
          /\ Outcome(e.item).content_type \in {"text/html", "text/html; charset=utf-8"}
          /\ e.url.fragment = ""
          /\ e.url.path = rstrip_slash(Outcome(e.item).url.path)
          /\ e.url.netloc = h_seed.netloc
          /\ Outcome(e.item).url.netloc = h_seed.netloc

\* The redirecting site was crawled to its end: /a, which ends on another
\* host, was fetched and emitted nothing; /b, which ends on /c/, was emitted
\* as /c.
C11_Witness ==
    /\ client = "redirect"
    /\ runner = "done"
    /\ PageA \in FetchedUrls
    /\ EmittedUrls = {Root, PageC}
    /\ \E e \in h_emitted : e.item.url = PageB /\ e.url = PageC

\* C12: on the site whose robots.txt keeps my-bot out of /a and every other
\* agent out of /b, the page the configured user agent is kept out of is
\* never enqueued and never fetched, and the other one, found on the same
\* page, has been emitted when the crawl ends (with no cap in its way).
C12_DisallowedNeverFetched ==
    client = "robots" =>
        LET blocked == IF user_agent = MyBot THEN PageA ELSE PageB
            allowed == IF user_agent = MyBot THEN PageB ELSE PageA
        IN  /\ blocked \notin EnqueuedUrls
            /\ blocked \notin FetchedUrls
            /\ blocked \notin EmittedUrls
            /\ (runner = "done" /\ max_pages = None /\ max_depth # 0) =>
                  allowed \in EmittedUrls

\* my-bot crawled the site to its end: / and /b were emitted, /c and /d were
\* fetched, /a was not.
C12_Witness ==
    /\ client = "robots"
    /\ user_agent = MyBot
    /\ runner = "done"
    /\ EmittedUrls = {Root, PageB}
    /\ FetchedUrls = {Root, PageB, PageC, PageD}

\* What the fetch port answers for robots.txt.
RobotsOutcome == client_fetch(client, robots_url(h_seed))
RobotsFailed ==
    \/ RobotsOutcome.kind = "FetchError"
    \/ RobotsOutcome.kind = "response" /\ RobotsOutcome.status_code # 200
Started == consumer \notin {"idle", "acquiring", "robots"}

\* C13: when the robots.txt fetch raised FetchError or answered another
\* status than 200, the crawl goes on: the seed is enqueued and the workers
\* are started, the oracle allows every URL of the seed's host, no SetRate
\* call is made, and the chain site, whose 404 robots.txt body would keep
\* everyone out, is crawled to its end.
C13_RobotsFailureAllowsAll ==
    (RobotsFailed /\ Started) =>
        /\ runner # "none"
        /\ start_url \in EnqueuedUrls
        /\ rate_limiter.rates = <<>>
        /\ \A u \in DOMAIN Responses(client) :
              u.netloc = h_seed.netloc => can_fetch(robots, user_agent, u)
        /\ (client = "chain" /\ runner = "done" /\ max_pages = None /\ max_depth = None) =>
              EmittedUrls = {Root, PageA, PageB, PageC}

\* The chain site, whose robots.txt answers 404, crawled to its end with a
\* rate limiter installed.
C13_Witness ==
    /\ client = "chain"
    /\ rate_limiter.installed
    /\ runner = "done"
    /\ EmittedUrls = {Root, PageA, PageB, PageC}
    /\ PageD \in FetchedUrls

\* The calls of the fetch port made so far, and the Acquire calls made for a
\* fetch that has not been made: by a task still suspended in Acquire, or
\* cancelled there.
FetchCalls == Len(h_robots) + BagCardinality(h_fetched)
AcquiredNotFetched ==
    Cardinality({w \in Workers : /\ wpc[w] \in {"acquiring", "cancelled"}
                                 /\ witem[w] # NoItem
                                 /\ witem[w] \notin BagToSet(h_fetched)})
    + (IF consumer = "acquiring" THEN 1 ELSE 0)
RobotsFetchedFirst ==
    /\ Len(h_robots) <= 1
    /\ (h_enqueued # EmptyBag \/ h_fetched # EmptyBag \/ Started) =>
          h_robots = <<robots_url(h_seed)>>
CrawlEnded ==
    /\ runner \in {"done", "raised", "cancelled"}
    /\ \A w \in Workers : wpc[w] \in Finished

\* C14 (as amended): robots.txt is fetched exactly once, before the seed is
\* enqueued and before any page is fetched; with a rate limiter installed
\* every call of the fetch port comes right after one Acquire of its own, so
\* the Acquire calls are the fetch calls plus the Acquires of the tasks that
\* are suspended in Acquire or were cancelled there, and the two numbers are
\* equal when the crawl has ended normally; with no limiter there is no
\* Acquire.
C14_AcquireBeforeEachFetch ==
    /\ RobotsFetchedFirst
    /\ rate_limiter.installed =>
          /\ rate_limiter.acquires = FetchCalls + AcquiredNotFetched
          /\ runner = "done" => rate_limiter.acquires = FetchCalls
    /\ ~rate_limiter.installed => rate_limiter.acquires = 0

\* A crawl ended by a worker's error while another worker was suspended in
\* Acquire: one Acquire more than fetch calls.
C14_Witness ==
    /\ rate_limiter.installed
    /\ CrawlEnded
    /\ runner = "raised"
    /\ AcquiredNotFetched = 1
    /\ rate_limiter.acquires = FetchCalls + 1

\* C14 (as claimed): ... so that when the crawl has ended the number of
\* Acquire calls equals the number of fetch calls.
C14_AcquiresEqualFetches ==
    /\ RobotsFetchedFirst
    /\ (rate_limiter.installed /\ CrawlEnded) => rate_limiter.acquires = FetchCalls

\* The crawl delay the robots.txt of the site states for the user agent.
SiteCrawlDelay ==
    IF client = "robots" THEN (IF user_agent = MyBot THEN 0 ELSE 2) ELSE NoDelay

\* C15: with a rate limiter installed, once the robots.txt fetch has been
\* handled (so before any page fetch) the limiter has run SetRate(1/d)
\* exactly once when the robots oracle reports a crawl delay d > 0, and
\* never when the delay is 0 or absent; no SetRate comes later.
C15_SetRateOnce ==
    /\ Started /\ rate_limiter.installed =>
          rate_limiter.rates =
             (IF SiteCrawlDelay # NoDelay /\ SiteCrawlDelay > 0
              THEN <<[num |-> 1, den |-> SiteCrawlDelay]>> ELSE <<>>)
    /\ ~Started => rate_limiter.rates = <<>> /\ h_fetched = EmptyBag

\* The fetch of the work item i did not deliver a page.
Failed(i) ==
    \/ Outcome(i).kind = "FetchError"
    \/ Outcome(i).kind = "response" /\ Outcome(i).status_code # 200

\* C20: a work item whose fetch raised FetchError or answered another status
\* than 200 emits no result and enqueues no children, and does not end its
\* worker (a worker ends with an error only on an unexpected one); when the
\* stream has closed normally, with no page cap, every enqueued item was
\* fetched, every fetched page that succeeded was emitted and every link of
\* an emitted page that passes the filters was enqueued.
C20_FailedFetchIsSkipped ==
    /\ \A i \in BagToSet(h_fetched) : Failed(i) =>
          /\ \A e \in h_emitted : e.item # i
          /\ \A j \in BagToSet(h_enqueued) : j.parent # i.url
    /\ \A w \in Workers : wpc[w] = "raised" => Outcome(witem[w]).kind = "RuntimeError"
    /\ (runner = "done" /\ max_pages = None) =>
          /\ \A i \in BagToSet(h_enqueued) :
                /\ i \in BagToSet(h_fetched)
                /\ (~Failed(i) /\ Outcome(i).content_type # "image/png"
                             /\ Outcome(i).url.netloc = h_seed.netloc) =>
                      \E e \in h_emitted : e.item = i
          /\ \A e \in h_emitted : \A link \in Range(extract_urls(Outcome(e.item).body.links, e.url)) :
                (/\ link.netloc = h_seed.netloc
                 /\ can_fetch(robots, user_agent, link)
                 /\ (max_depth = None \/ e.item.depth < max_depth)) => link \in visited

\* The chain site crawled to its end: the fetch of /d raised FetchError, the
\* four pages were emitted, and the worker that had /d returned.
C20_Witness ==
    /\ client = "chain"
    /\ runner = "done"
    /\ AllReturned
    /\ PageD \in FetchedUrls
    /\ EmittedUrls = {Root, PageA, PageB, PageC}

\* C16: for every rate r > 0, set at construction or by set_rate, r < 1
\* included, a task suspended in Acquire eventually returns from it as time
\* advances (one task using the bucket, the clock advancing and due sleeps
\* ending).
C16_AcquireReturns ==
    (callers[1].pc = "sleeping") ~> (callers[1].pc = "idle")

\* C17: on a freshly constructed bucket of integer rate r >= 1, as long as
\* no time has elapsed, the Acquire calls that have returned are the first r
\* ones: every call up to the r-th has returned, no later one has.
C17_BurstThenBlocks ==
    (Constructed /\ ~h_bucket.changed /\ ~h_bucket.advanced /\ h_bucket.rate.den = 1) =>
        /\ h_bucket.returns = Min(h_bucket.calls, h_bucket.rate.num)
        /\ Cardinality({c \in Callers : callers[c].pc = "sleeping"})
              = h_bucket.calls - h_bucket.returns

\* On a fresh bucket of rate 2, three Acquire calls at once: two returned,
\* the third sleeps.
C17_Witness ==
    /\ ~h_bucket.changed
    /\ ~h_bucket.advanced
    /\ h_bucket.rate = Rate(2, 1)
    /\ h_bucket.calls = 3
    /\ h_bucket.returns = 2
    /\ \E c \in Callers : callers[c].pc = "sleeping"

\* The Acquire returns during the last T ticks, the ends included.
RECURSIVE ReturnsWithin(_)
ReturnsWithin(T) ==
    IF T < 0 THEN 0 ELSE h_bucket.window[T + 1] + ReturnsWithin(T - 1)

\* ceil(rate * T + capacity) for T ticks, with capacity = rate.
Ceiling(rate, T) ==
    (T * per_tick(rate) + as_tokens(rate) + Tokens(1) - 1) \div Tokens(1)

\* C18: on a bucket of fixed rate, with any number of callers, over every
\* interval of T >= capacity/rate = 1 second the Acquire calls that return
\* are at most ceil(rate * T + capacity).
C18_LongRunBound ==
    (Constructed /\ ~h_bucket.changed) =>
        \A T \in Ticks(1) .. MaxWindow :
            ReturnsWithin(T) <= Ceiling(bucket.rate, T)

\* Rate 2: four Acquire calls returned within one second, as many as the
\* bound allows, two of them at its start and two as the tokens came back.
C18_Witness ==
    /\ ~h_bucket.changed
    /\ bucket.rate = Rate(2, 1)
    /\ ReturnsWithin(Ticks(1)) = Ceiling(bucket.rate, Ticks(1))
    /\ h_bucket.window[1] > 0
    /\ h_bucket.window[Ticks(1) + 1] > 0

\* TokenBucket(rate) raises ValueError exactly for rate <= 0, and then there
\* is no bucket.
ConstructorChecksRate ==
    (~h_bucket.changed /\ h_bucket.set_rate = Rate(0, 0) /\ ~Constructed) =>
        h_bucket.raised /\ h_bucket.rate.num <= 0
SetRateCalled == h_bucket'.set_rate # Rate(0, 0) /\ h_bucket' # h_bucket

\* C19: constructing a bucket with rate <= 0 raises ValueError; set_rate(r)
\* with r <= 0 raises ValueError and leaves rate, max_tokens, tokens and the
\* time of the last refill as they were; with r > 0 it does not raise and
\* sets rate and max_tokens to r.
C19_RejectsNonPositiveRate ==
    /\ [](ConstructorChecksRate /\ (Constructed => h_bucket.rate.num > 0))
    /\ [][SetRateCalled =>
            IF h_bucket'.set_rate.num <= 0
            THEN h_bucket'.raised /\ bucket' = bucket /\ elapsed' = elapsed
            ELSE /\ ~h_bucket'.raised
                 /\ bucket' = [bucket EXCEPT !.rate = h_bucket'.set_rate,
                                               !.max_tokens = as_tokens(h_bucket'.set_rate)]
                 /\ elapsed' = elapsed]_vars

\* set_rate(0) has just raised on a bucket of rate 2 that is partly used.
C19_Witness ==
    /\ h_bucket.raised
    /\ h_bucket.set_rate = Rate(0, 1)
    /\ bucket.rate = Rate(2, 1)
    /\ bucket.max_tokens = Tokens(2)
    /\ bucket.tokens = Tokens(1)

\* The fetched items whose response the worker has handled, and the final
\* URLs of the 200 text/html responses among them, normalised.
Handled ==
    {i \in BagToSet(h_fetched) :
        /\ Outcome(i).kind = "response"
        /\ \A w \in Workers : ~(witem[w] = i /\ wpc[w] \in {"fetching", "cancelled"})}
IsHtmlPage(i) ==
    /\ Outcome(i).status_code = 200
    /\ has_text_html(Outcome(i).content_type)
ObservedFinals == {normalise_url(Outcome(i).url) : i \in {h \in Handled : IsHtmlPage(h)}}

\* C21: the normalised final URL of every 200 text/html response is in
\* visited once the response has been handled; a URL that has been observed
\* as a final URL is not enqueued and not fetched afterwards; every emitted
\* result's url is in visited, so it is when the stream closes.
C21_RedirectTargetNotFetchedAgain ==
    /\ [](ObservedFinals \subseteq visited /\ EmittedUrls \subseteq visited)
    /\ [][/\ \A j \in BagToSet(h_enqueued') \ BagToSet(h_enqueued) :
                j.url \notin ObservedFinals'
          /\ \A j \in BagToSet(h_fetched') \ BagToSet(h_fetched) :
                j.url \notin ObservedFinals']_vars

\* C22: crawl() called with a seed that is not an absolute http or https URL
\* fails with an invalid-argument error before any fetch, the robots.txt
\* fetch included, and before any worker is started: no fetch is ever made,
\* no work item is enqueued, no task is created, and the caller's iteration
\* does not end normally.
C22_BadSeedFailsFast ==
    ~validate_url(h_seed) =>
        /\ h_robots = <<>>
        /\ h_enqueued = EmptyBag
        /\ h_fetched = EmptyBag
        /\ runner = "none"
        /\ \A w \in Workers : wpc[w] = "none"
        /\ consumer # "finished"

\* C23: normalise_url is idempotent, normalise_url(normalise_url(u)) =
\* normalise_url(u); its result has no fragment, has the path of u without
\* its trailing slashes, and has the scheme, the authority and the query of u.
C23_NormaliseIdempotent ==
    /\ Len(output) >= 1 =>
          /\ urlparse(output[1]).fragment = <<>>
          /\ urlparse(output[1]).scheme = urlparse(input).scheme
          /\ urlparse(output[1]).netloc = urlparse(input).netloc
          /\ urlparse(output[1]).query = urlparse(input).query
          /\ urlparse(output[1]).path = rstrip_slash(urlparse(input).path)
    /\ Len(output) = 2 => output[2] = output[1]

\* C24: the links of every emitted result are the extractor's output for the
\* fetched body with the final URL as base, in the same order, and reach the
\* caller unchanged: the seed page of the cyclic site reports its off-site
\* link, and the seed page of the robots site reports the page robots.txt
\* disallows, the image and the missing page, whatever the filters and caps.
C24_LinksAreExtractorOutput ==
    /\ \A k \in Results(h_placed) :
          /\ \E e \in h_emitted :
                /\ e.url = h_placed[k].url
                /\ h_placed[k].links = extract_urls(Outcome(e.item).body.links, e.url)
          /\ (client = "cycle" /\ h_placed[k].url = Root) =>
                h_placed[k].links = <<PageA, PageB, Root, Offsite, PageC>>
          /\ (client = "robots" /\ h_placed[k].url = Root) =>
                h_placed[k].links = <<PageA, PageB, PageC, PageD>>
    /\ \A k \in DOMAIN received : received[k] = h_placed[k]

\* The caller of a crawl of the cyclic site with max_depth = 0 has got the
\* seed's result, with its off-site link, and the stream has ended.
C24_Witness ==
    /\ client = "cycle"
    /\ max_depth = 0
    /\ consumer = "finished"
    /\ Len(received) = 1
    /\ Offsite \in Range(received[1].links)
    /\ PageC \in Range(received[1].links)
    /\ visited = {Root}

\* C25: every URL ever put on the work queue, and so every URL fetched as a
\* page, has the authority of the seed, as the same string: the links to
\* another host, to a subdomain of the seed's host and to the seed's host
\* with a port written out are never enqueued or fetched.
C25_SameAuthorityOnly ==
    /\ \A i \in BagToSet(h_enqueued) : i.url.netloc = h_seed.netloc
    /\ \A i \in BagToSet(h_fetched) : i.url.netloc = h_seed.netloc
    /\ (EnqueuedUrls \cup FetchedUrls) \cap {Offsite, Subdomain, Port8080, Port443} = {}

\* The chain site crawled to its end: /b, which links to the subdomain and
\* to the host with a port, was emitted, and only the five URLs of the host
\* were enqueued.
C25_Witness ==
    /\ client = "chain"
    /\ runner = "done"
    /\ \E k \in Results(h_placed) :
          /\ h_placed[k].url = PageB
          /\ {Subdomain, Port8080, Port443} \subseteq Range(h_placed[k].links)
    /\ EnqueuedUrls = {Root, PageA, PageB, PageC, PageD}

\* C26: when the stream has closed, every URL in the links of an emitted
\* result is in visited, or is on another host, or is disallowed by robots,
\* or lies beyond max_depth, or its page was emitted when the page cap was
\* reached: no link that passes the filters is dropped.
C26_NoEligibleLinkDropped ==
    Closed =>
        \A e \in h_emitted : \A link \in Range(h_placed[e.nth].links) :
            \/ link \in visited
            \/ link.netloc # h_seed.netloc
            \/ ~can_fetch(robots, user_agent, link)
            \/ (max_depth # None /\ e.item.depth + 1 > max_depth)
            \/ (max_pages # None /\ e.nth >= max_pages)

\* The robots site crawled to its end by an agent of the * group, with no
\* cap: of the seed's four links /b, which robots.txt disallows, is the one
\* that is not in visited.
C26_Witness ==
    /\ client = "robots"
    /\ user_agent = Star
    /\ max_depth = None
    /\ max_pages = None
    /\ Closed
    /\ runner = "done"
    /\ visited = {Root, PageA, PageC, PageD}
    /\ \E e \in h_emitted : e.url = Root /\ PageB \in Range(h_placed[e.nth].links)

\* The values of the body that extract_urls does not skip, and what each of
\* them stands for.
Kept(k) ==
    /\ input.html[k] # EmptyText
    /\ ~starts_with_hash(input.html[k])
    /\ urljoin(input.base_url, input.html[k]).scheme \in {"http", "https"}
Target(k) == normalise_url(urljoin(input.base_url, input.html[k]))
FirstOf(url) ==
    CHOOSE k \in DOMAIN input.html :
        /\ Kept(k) /\ Target(k) = url
        /\ \A j \in 1 .. k - 1 : ~(Kept(j) /\ Target(j) = url)

\* C27: for a non-empty base, extract_urls returns the normalised resolved
\* http/https URLs of the values that are not empty, do not begin with #
\* and do not resolve to another scheme, each once, in the order of their
\* first occurrence; an empty body gives the empty list; an empty base
\* raises ValueError.
C27_ExtractOrderedDeduplicated ==
    output # <<>> =>
        IF input.base_url = EmptyText THEN output[1] = ValueError
        ELSE /\ \A i, j \in DOMAIN output[1] : output[1][i] = output[1][j] => i = j
             /\ Range(output[1]) = {Target(k) : k \in {n \in DOMAIN input.html : Kept(n)}}
             /\ \A i, j \in DOMAIN output[1] :
                   i < j => FirstOf(output[1][i]) < FirstOf(output[1][j])
             /\ input.html = <<>> => output[1] = <<>>

\* On base "https://example.com/a/": "c", "#top" and "/a" give /a/c and /a.
C27_Witness ==
    /\ input = [html |-> <<RelC, FragmentOnly, PageASlash>>, base_url |-> PageASlash]
    /\ output = << <<Page(<<"/", "a", "/", "c">>), PageA>> >>

\* C28: with max_pages = K and max_concurrency = N, under every
\* interleaving, at most K + N - 1 results are put on the stream: beyond K
\* only the workers that were in flight when the cap was reached emit.
C28_OvershootBounded ==
    max_pages # None =>
        Cardinality(Results(h_placed)) <= max_pages + max_concurrency - 1

\* K = 2, N = 2 on the cyclic site: the seed's result, then both workers in
\* flight emit: three results, one more than the cap, and the crawl ended.
C28_Witness ==
    /\ client = "cycle"
    /\ max_pages = 2
    /\ max_concurrency = 2
    /\ Cardinality(Results(h_placed)) = 3
    /\ pages_crawled = 3
    /\ runner = "done"

\* C29: in every reachable state in_progress is the number of workers that
\* dequeued an item and have not yet run `finally`, so it lies between 0 and
\* max_concurrency; every dequeue is matched by one decrement on every way
\* out (filter, FetchError, unexpected error, cancellation): in_progress
\* changes by the change in the number of such workers in every step, and is
\* 0 once every worker ended.
HoldingWorkers == {w \in Workers : wpc[w] \in Holding}

C29_InProgressCountsHolders ==
    /\ [](/\ in_progress = Cardinality(HoldingWorkers)
          /\ in_progress >= 0
          /\ in_progress <= max_concurrency
          /\ ((\A w \in Workers : wpc[w] \in Finished) => in_progress = 0))
    /\ [][in_progress' - in_progress
            = Cardinality(HoldingWorkers') - Cardinality(HoldingWorkers)]_vars

\* One worker ended with an unexpected error and ran its decrement while the
\* other still holds its item: in_progress is 1.
C29_Witness ==
    /\ max_concurrency = 2
    /\ \E w, v \in Workers :
          /\ wpc[w] = "raised"
          /\ wpc[v] \in Holding
    /\ in_progress = 1

\* What one step did: work items put on url_queue, items dequeued (each
\* dequeue increments in_progress, line 102) and decrements of in_progress.
Enqs == BagCardinality(h_enqueued') - BagCardinality(h_enqueued)
Incs == Len(url_queue) + Enqs - Len(url_queue')
Decs == Incs - (in_progress' - in_progress)

\* done_event.set() ran in the step: every worker that waited is woken and
\* the event is set, unless the worker that set it came back to the empty
\* queue in the same run, cleared it and now waits itself.
SignalRaised ==
    /\ \A v \in Workers : wpc[v] = "waiting" => wpc'[v] # "waiting"
    /\ \/ done_event'
       \/ \E w \in Workers : wpc[w] # "waiting" /\ wpc'[w] = "waiting"

\* The seed is put on the queue before any worker exists (line 88).
SeedStep == consumer = "robots"

\* C30 (as stated): the progress-changed signal is raised on every increment
\* of in_progress, on every decrement of in_progress and on every enqueue of
\* a work item (the seed's enqueue, which no worker can wait for, left aside).
C30_SignalOnEveryChange ==
    [][(~SeedStep /\ (Incs > 0 \/ Decs > 0 \/ Enqs > 0)) => SignalRaised]_vars

\* C30 (amended): the signal is raised on every decrement of in_progress,
\* and every enqueue made by a worker is in the same uninterrupted run as a
\* decrement, hence signalled before any other worker runs.
C30_SignalOnDecrement ==
    [][/\ Decs > 0 => SignalRaised
       /\ (~SeedStep /\ Enqs > 0) => Decs > 0]_vars

\* A worker that waited on the event was woken by the `finally` of a worker
\* that enqueued links: the queue holds its items and the event is set.
C30_Witness ==
    /\ \E w \in Workers : wpc[w] = "woken"
    /\ done_event
    /\ Len(url_queue) > 0
    /\ in_progress = 0


\* C31: the result stream is a bounded channel: the results placed on it
\* and not yet read by the caller never number more than its capacity,
\* max_concurrency, so workers cannot run ahead of a caller that is not
\* reading.
Unread == {k \in DOMAIN result_queue : result_queue[k] # EndOfStream}

C31_StreamBounded == Cardinality(Unread) <= max_concurrency


\* C32: once pages_crawled has reached max_pages, in the step that reaches
\* the cap and in every later one, no work item is enqueued (so the page
\* whose emission reached the cap enqueues none of its links), no Acquire is
\* started and the only fetches started are those of items dequeued before
\* the cap was reached; the queue then drains and the crawl ends.
CapStep == runner # "none" /\ page_cap_reached(pages_crawled')

StartedFetches ==
    {j \in BagToSet(h_fetched') : CopiesIn(j, h_fetched') > CopiesIn(j, h_fetched)}

C32_CapStopsTheCrawl ==
    /\ [][CapStep =>
            /\ h_enqueued' = h_enqueued
            /\ rate_limiter'.acquires = rate_limiter.acquires
            /\ \A j \in StartedFetches :
                  \E w \in Workers : wpc[w] \in {"acquiring", "sem_wait"} /\ witem[w] = j]_vars
    /\ (runner # "none" /\ page_cap_reached(pages_crawled))
          ~> (/\ \A w \in Workers : wpc[w] \in Finished
              /\ FetchNeverUnexpected => (url_queue = <<>> /\ AllReturned))

\* max_pages = 2 on the cyclic site: the seed and one more page were emitted,
\* the two items left on the queue were dequeued and dropped, never fetched.
C32_Witness ==
    /\ client = "cycle"
    /\ max_pages = 2
    /\ pages_crawled = 2
    /\ BagCardinality(h_enqueued) = 4
    /\ BagCardinality(h_fetched) = 2
    /\ url_queue = <<>>
    /\ runner = "done"


\* C33: every URL is added to visited before it is put on url_queue, the
\* membership test and the insertion being one uninterrupted run: every
\* queued or once enqueued URL is in visited, no URL is enqueued twice (also
\* when two workers handle pages that link to the same new URL), a URL is
\* enqueued only in a step that finds it absent from visited and leaves it
\* there, and visited never loses an element.
C33_VisitedBeforeQueued ==
    /\ [](/\ \A k \in DOMAIN url_queue : url_queue[k].url \in visited
          /\ EnqueuedUrls \subseteq visited
          /\ \A i, j \in BagToSet(h_enqueued) : i.url = j.url => i = j
          /\ \A i \in BagToSet(h_enqueued) : CopiesIn(i, h_enqueued) = 1)
    /\ [][/\ visited \subseteq visited'
          /\ \A j \in BagToSet(h_enqueued') :
                CopiesIn(j, h_enqueued') > CopiesIn(j, h_enqueued) =>
                   j.url \notin visited /\ j.url \in visited']_vars

\* Two workers fetched /a and /c of the lattice site at the same time; both
\* pages link to the new /d.  /c was handled first and enqueued /d; /a has
\* been handled too and /d is still enqueued once, as the child of /c.
C33_Witness ==
    /\ client = "lattice"
    /\ max_concurrency = 2
    /\ {PageA, PageC} \subseteq EmittedUrls
    /\ \E i \in BagToSet(h_enqueued) : i.url = PageD /\ i.parent = PageC


\* C34: one HttpxClient.fetch call with max_retries >= 0 makes at most
\* max_retries + 1 attempts, numbered in order, each after a failed one; it
\* returns at the first attempt that gives a response; it sleeps only after
\* a failed attempt that is not the last, for retry_backoff doubled at each
\* attempt; it raises FetchError only when max_retries + 1 attempts failed;
\* another exception ends it at the attempt that raised it; nothing follows
\* the return or the raise.  The engine calls the port once for an item
\* whose fetch raises FetchError and never enqueues its URL again.
Attempts == {k \in DOMAIN output : output[k].ev = "attempt"}
Sleeps == {k \in DOMAIN output : output[k].ev = "sleep"}
LastEvent == output[Len(output)]

FetchCallBounded ==
    /\ Cardinality(Attempts) <= input.max_retries + 1
    /\ input.url_empty => Attempts = {}
    /\ \A k \in DOMAIN output :
          output[k].ev \in {"return", "raise"} => k = Len(output)
    /\ \A k \in Attempts :
          /\ output[k].attempt = Cardinality({j \in Attempts : j < k})
          /\ \A n \in 0 .. output[k].attempt - 1 : input.do_fetch[n] = "FetchError"
    /\ \A k \in Sleeps :
          /\ k - 1 \in Attempts
          /\ output[k].attempt = output[k - 1].attempt
          /\ output[k].attempt < input.max_retries
          /\ input.do_fetch[output[k].attempt] = "FetchError"
          /\ output[k].arg = (IF output[k].attempt = 0 THEN input.retry_backoff
                              ELSE 2 * output[k - 2].arg)
          /\ k < Len(output) => k + 1 \in Attempts
    /\ output # <<>> /\ LastEvent.ev = "return" =>
          /\ input.do_fetch[LastEvent.attempt] = "response"
          /\ Cardinality(Attempts) = LastEvent.attempt + 1
    /\ output # <<>> /\ LastEvent.ev = "raise" =>
          CASE LastEvent.arg = "FetchError" ->
                  /\ Cardinality(Attempts) = input.max_retries + 1
                  /\ Cardinality(Sleeps) = input.max_retries
                  /\ LastEvent.attempt = input.max_retries
                  /\ \A n \in 0 .. input.max_retries : input.do_fetch[n] = "FetchError"
            [] LastEvent.arg = "RuntimeError" ->
                  /\ input.do_fetch[LastEvent.attempt] = "RuntimeError"
                  /\ Cardinality(Attempts) = LastEvent.attempt + 1
                  /\ Cardinality(Sleeps) = LastEvent.attempt
            [] OTHER -> input.url_empty /\ Len(output) = 1

FailedOnceAtTheEngine ==
    \A i \in BagToSet(h_fetched) :
        Outcome(i).kind = "FetchError" =>
            /\ CopiesIn(i, h_fetched) = 1
            /\ \A j \in BagToSet(h_enqueued) :
                  j.url = i.url => j = i /\ CopiesIn(j, h_enqueued) = 1

C34_RetriesBounded ==
    /\ HttpxCalling => FetchCallBounded
    /\ FailedOnceAtTheEngine

\* max_retries = 2: two failed attempts, a sleep of retry_backoff and one of
\* twice that, then the third attempt gave the response, which was returned.
C34_Witness ==
    /\ HttpxCalling
    /\ input.max_retries = 2
    /\ input.retry_backoff = 2
    /\ Len(output) = 6
    /\ output[2].ev = "sleep" /\ output[2].arg = 2
    /\ output[4].ev = "sleep" /\ output[4].arg = 4
    /\ output[6].ev = "return" /\ output[6].attempt = 2


\* C35 (as stated): in every reachable state of the token bucket, after any
\* Acquire and SetRate calls by any number of callers, 0 <= tokens <=
\* capacity, and capacity is the current rate.
C35_TokensWithinCapacity ==
    Constructed =>
        /\ bucket.tokens >= 0
        /\ bucket.tokens <= bucket.max_tokens
        /\ bucket.max_tokens = as_tokens(bucket.rate)

\* C35 (amended): tokens >= 0 and capacity = rate > 0 in every state; tokens
\* <= capacity holds after every turn of Acquire (each refills first) and
\* can be broken only by a SetRate that lowers the capacity.
AcquireTurn == elapsed' = 0 /\ ~SetRateCalled

C35_TokensWithinCapacityAfterRefill ==
    /\ [](Constructed =>
             /\ bucket.tokens >= 0
             /\ bucket.rate.num > 0
             /\ bucket.max_tokens = as_tokens(bucket.rate))
    /\ [][/\ AcquireTurn => bucket'.tokens <= bucket'.max_tokens
          /\ (bucket.tokens <= bucket.max_tokens
                /\ bucket'.max_tokens >= bucket.max_tokens) =>
                bucket'.tokens <= bucket'.max_tokens]_vars

\* A full bucket of rate 2 whose rate was just set to 1/2: it holds two
\* tokens and its capacity is half a token, until the next Acquire.
C35_Witness ==
    /\ h_bucket.rate = Rate(2, 1)
    /\ h_bucket.set_rate = Rate(1, 2)
    /\ ~h_bucket.raised
    /\ bucket.max_tokens = as_tokens(Rate(1, 2))
    /\ bucket.tokens = Tokens(2)


\* C36: with several callers in Acquire on one bucket of rate >= 1, each
\* turn of the loop refills and consumes in one step (a turn that returns
\* takes exactly one token that the refill found, a turn that does not
\* leaves the refilled tokens and puts its caller to sleep), a sleeping
\* caller keeps no other caller from its turn, and under fair scheduling
\* every caller suspended in Acquire eventually returns from it.
TurnReturned == h_bucket'.window[1] = h_bucket.window[1] + 1

C36_NoCallerStarves ==
    /\ [][AcquireTurn =>
            IF TurnReturned
            THEN /\ refill(bucket, elapsed).tokens >= Tokens(1)
                 /\ bucket'.tokens = refill(bucket, elapsed).tokens - Tokens(1)
            ELSE /\ bucket'.tokens = refill(bucket, elapsed).tokens
                 /\ bucket'.tokens < Tokens(1)]_vars
    /\ [](\A c \in Callers : callers[c].pc = "idle" => ENABLED BucketAcquire(c))
    /\ \A c \in Callers : (callers[c].pc = "sleeping") ~> (callers[c].pc = "idle")


\* C37: no two results put on the stream in one crawl have the same url,
\* also when queued URLs redirect to one final URL or to a URL that was
\* already enqueued or emitted.
C37_ResultUrlsDistinct ==
    \A j, k \in Results(h_placed) : j # k => h_placed[j].url # h_placed[k].url


\* C38: no wake-up is lost.  A worker waits on the event only while the
\* queue is empty and some item is in progress, so whatever makes the queue
\* non-empty or ends the last item in progress wakes every waiting worker
\* in the same step; a woken worker that resumes with the queue non-empty
\* dequeues an item; and under fair scheduling no worker waits for ever.
C38_NoLostWakeup ==
    /\ [](\A w \in Workers :
             wpc[w] = "waiting" => url_queue = <<>> /\ in_progress > 0)
    /\ [][\A w \in Workers :
             (/\ wpc[w] = "woken"
              /\ wpc'[w] \notin {"woken", "cancelled"}
              /\ url_queue # <<>>) => Incs > 0]_vars
    /\ \A w \in 1 .. MaxConcurrency :
          (w \in Workers /\ wpc[w] = "waiting")
             ~> ~(w \in Workers /\ wpc[w] = "waiting")

\* The last item in progress has finished with nothing left to do: its
\* worker returned, and the worker that waited has been woken to return too.
C38_Witness ==
    /\ \E w, v \in Workers : wpc[w] = "woken" /\ wpc[v] = "returned"
    /\ url_queue = <<>>
    /\ in_progress = 0
    /\ done_event


\* The pages of the site that a crawl emits when it fetches them, their
\* links that a crawl may follow, and the URLs within d links of the seed.
Emits(u) ==
    /\ client_fetch(client, u).kind = "response"
    /\ client_fetch(client, u).status_code = 200
    /\ has_text_html(client_fetch(client, u).content_type)
    /\ is_same_domain(normalise_url(client_fetch(client, u).url), start_url)

Followed(u) ==
    {l \in Range(extract_urls(client_fetch(client, u).body.links,
                              normalise_url(client_fetch(client, u).url))) :
        is_same_domain(l, start_url) /\ can_fetch(robots, user_agent, l)}

RECURSIVE WithinLinks(_)
WithinLinks(d) ==
    IF d = 0 THEN {start_url}
    ELSE LET near == WithinLinks(d - 1)
         IN  near \cup UNION {Followed(u) : u \in {v \in near : Emits(v)}}

NoRedirects ==
    \A u \in DOMAIN Responses(client) :
        Responses(client)[u].kind = "response" =>
            normalise_url(Responses(client)[u].url) = normalise_url(u)

\* C39: with max_depth = D, more than one worker, no page cap and no
\* redirects, a crawl that has ended has emitted every page within D links
\* of the seed, whatever the order in which the fetches completed.
C39_EmittedSetIsDepthBall ==
    (/\ runner = "done"
     /\ max_depth # None
     /\ max_pages = None
     /\ max_concurrency > 1
     /\ NoRedirects) =>
        EmittedUrls = {u \in WithinLinks(max_depth) : Emits(u)}


\* The caller has read the stream to its end: it got the end-of-stream
\* signal, and then the worker error if there was one.
ReadToTheEnd == consumer \in {"finished", "raised"}

\* C40: the results placed on the stream are as many as pages_crawled counts;
\* a reading caller has received, once each and in placement order, the
\* results placed so far but for those still queued; and a caller that read
\* to the end has received every result placed, pages_crawled of them, all
\* before the end-of-stream signal, which is the last thing placed.
C40_DeliveredOnceInOrder ==
    /\ Cardinality(Results(h_placed)) = pages_crawled
    /\ \A k \in DOMAIN received : received[k] # EndOfStream
    /\ consumer = "reading" => h_placed = received \o result_queue
    /\ ReadToTheEnd =>
          /\ h_placed = Append(received, EndOfStream)
          /\ result_queue = <<>>
          /\ Len(received) = pages_crawled

\* A caller was given two results and then the worker's error.
C40_Witness ==
    /\ consumer = "raised"
    /\ Len(received) = 2
    /\ received[1] # received[2]

====
